---- MODULE Spec2Model ----
(***************************************************************************)
(* Model of the abacus dataflow reduce engine (lib/utils/dataflow).        *)
(* play -> detectDup -> logInput -> groupReduce (lock, lastAccum, reduce,  *)
(* post to sink, logOutputs) -> filterDup / logError -> unlock.            *)
(***************************************************************************)
EXTENDS Integers, Sequences, FiniteSets, TLC

\* ---------------------------------------------------------------- bounds
\* total number of play invocations explored
MaxPlays == 2
\* number of writes by a writer outside this process
MaxExt == 1
\* number of failures of the environment (store timeouts, failed sink posts,
\* reducer exceptions and error marks)
MaxFail == 1
\* number of ids the duplicate filter remembers
FilterCap == 1
\* number of runs of the replay driver
MaxReplays == 1
\* length of the lists of output docs handed to logOutputs
MaxDocs == 3

\* concurrent play invocations (router requests in flight)
Calls == {1, 2}

\* ---------------------------------------------------------------- ids
RECURSIVE Zeros(_)
Zeros(n) == IF n <= 0 THEN "" ELSE "0" \o Zeros(n - 1)

\* seqid.pad16: 16-digit zero padded decimal
Pad16(t) == Zeros(16 - Len(ToString(t))) \o ToString(t)

\* dbclient.kturi / dbclient.tkuri
Kturi(k, t) == "k/" \o k \o "/t/" \o Pad16(t)
Tkuri(k, t) == "t/" \o Pad16(t) \o "/k/" \o k

\* ---------------------------------------------------------------- inputs
\* The input docs submitted to the service together with the values the
\* configured opt.input.key/time/groups, opt.output.keys/times and
\* opt.error.key/time callbacks compute for them.
InputDocs == <<
  [ikey |-> "i1", itime |-> 1, groups |-> <<"g">>,
   okeys |-> <<"a">>, otimes |-> <<1>>, ekey |-> "e", etime |-> 1],
  [ikey |-> "i2", itime |-> 2, groups |-> <<"g">>,
   okeys |-> <<"a">>, otimes |-> <<2>>, ekey |-> "e", etime |-> 1],
  [ikey |-> "i3", itime |-> 3, groups |-> <<"g", "h">>,
   okeys |-> <<"a", "b">>, otimes |-> <<3, 3>>, ekey |-> "i3", etime |-> 3],
  [ikey |-> "i4", itime |-> 3, groups |-> <<"g">>,
   okeys |-> <<"b">>, otimes |-> <<3>>, ekey |-> "e", etime |-> 1] >>

Inputs == DOMAIN InputDocs
\* the input docs posted to the service: docs of one group that share their
\* output key and month, and a doc of another group
Submitted == {1, 2, 3}
\* input docs of one group whose output keys and months differ
Mixed == {1, 4}
OKeys == {"a", "b"}
Times == {1, 2, 3}

\* length of the accumulation period (moment startOf/endOf month)
MonthLen == 2
MonthOf(t) == (t - 1) \div MonthLen

Last(s) == s[Len(s)]

\* play: ids computed from the input doc
InputId(x) == Tkuri(InputDocs[x].ikey, InputDocs[x].itime)
OutId(x, i) == Kturi(InputDocs[x].okeys[i], InputDocs[x].otimes[i])
Oid(x) == Kturi(Last(InputDocs[x].okeys), Last(InputDocs[x].otimes))
Eid(x) == Tkuri(InputDocs[x].ekey, InputDocs[x].etime)
NSlots(x) == Len(InputDocs[x].okeys)

RECURSIVE JoinFrom(_, _)
JoinFrom(s, i) ==
  IF i > Len(s) THEN ""
  ELSE IF i = Len(s) THEN s[i] ELSE s[i] \o "/" \o JoinFrom(s, i + 1)

\* groupReduce: the batch grouping key igroups.join('/')
GroupKey(x) == JoinFrom(InputDocs[x].groups, 1)
\* groupReduce: the key of the group lock, igroups[0]
GroupLockKey_leaf(x) == Oid(x)

GroupLockKey_join(x) == GroupKey(x)

GroupLockKey(x) == InputDocs[x].groups[1]

OIds == UNION {{OutId(x, i) : i \in 1..NSlots(x)} : x \in Inputs}
IIds == {InputId(x) : x \in Inputs}
EIds == {Eid(x) : x \in Inputs}
LockKeys == {Oid(x) : x \in Inputs} \cup {GroupLockKey(x) : x \in Inputs}

\* ---------------------------------------------------------------- errors
Err(st, e) == [status |-> st, error |-> e, noretry |-> FALSE, nobreaker |-> FALSE]
NoError == Err(0, "none")

\* dupError
dupError_retry == [status |-> 409, error |-> "conflict", noretry |-> FALSE,
                   nobreaker |-> FALSE]

dupError ==
  [status |-> 409, error |-> "conflict", noretry |-> TRUE, nobreaker |-> TRUE]

\* failures surfaced by the store facade
StoreTimeout == Err(500, "etimeout")
StoreConflict == Err(409, "conflict")
\* exception thrown by the user reducer
ReduceThrown == Err(500, "ereduce")
\* checkError: {error, reason} mark found in a reducer output
MarkError == Err(0, "emark")
\* postOutputs: {error: 'esink', reason}
SinkError == Err(0, "esink")
\* postError: {id, status: res.statusCode, ...body}
PostError(st) == Err(st, "epost")

\* ---------------------------------------------------------------- docs
\* a string that may be undefined: an environment variable, a store name
Undefined == [set |-> FALSE, val |-> ""]
Str(v) == [set |-> TRUE, val |-> v]
\* the value counts as true in a condition: set and not empty
Truthy(n) == n.set /\ n.val # ""

NoDoc == [rev |-> 0, val |-> <<>>, src |-> 0]
NoAccum == [id |-> "", rev |-> 0, val |-> <<>>]
Free == <<"free", 0>>
NoEDoc == [error |-> NoError, src |-> 0]

VARIABLES
  pc,        \* position of each play invocation
  inp,       \* the input doc of each play invocation
  perr,      \* play: the local variable error
  result,    \* how the play ended: returned {doc, error} or thrown
  dupq,      \* answers the play got from the filter (has), from the output
             \* store in detectDup (get), from the input store in logInput
             \* (iput) and from the error store before logError (eget)
  eff,       \* effects performed so far by (or on behalf of) each play
  locks,     \* abacus-lock 'dataflow' table: holder of each key
  ddup,      \* ids held by the duplicate filter
  idb,       \* input store
  odb,       \* output store
  edb,       \* error store
  pending,   \* calls collected by the batcher, not yet flushed
  batch,     \* group batches in progress, keyed by their first call
  owrites,   \* number of puts of each input's output slot accepted by odb
  nplays,    \* play invocations so far
  next,      \* writes by other writers so far
  nfail,     \* failures of the environment so far
  okd,       \* the input docs some play has returned without error for
  dedupe,    \* opt.input.dedupe: whether a duplicate filter is configured
  fn,        \* a request handled or a helper called apart from play: its
             \* name, its arguments and, once it has run, its outcome
  rp         \* the replay driver: position, docs left to check, stats

vars == <<pc, inp, perr, result, dupq, eff, locks, ddup, idb, odb, edb,
          pending, batch, owrites, nplays, next, nfail, okd, dedupe, fn, rp>>

storeVars == <<ddup, idb, odb, edb, owrites, okd>>
\* the counters, the configuration and the replay driver
ctrs == <<nplays, next, nfail, dedupe, fn, rp>>

NoDupq == [has |-> "na", get |-> "na", iput |-> "na", eget |-> "na"]
NoResult == [kind |-> "none", error |-> NoError]
\* a group batch: the calls, the accumulators read, the reducer outputs of
\* each call, the responses of the sink, the post result of each call, the
\* exception that ended it, the
\* puts it issued, and what other writers wrote since it read its accumulators
NoBatch ==
  [pc |-> "none", calls |-> <<>>, accums |-> <<>>, outs |-> <<>>,
   posts |-> {}, pres |-> <<>>, err |-> NoError, puts |-> {}, dirty |-> {},
   dirtySlots |-> {}]

\* the replay driver before its first run
NoReplay ==
  [pc |-> "off", todo |-> <<>>, call |-> 0, replayed |-> 0, failed |-> 0,
   err |-> FALSE, size |-> 0, clean |-> FALSE, runs |-> 0,
   env |-> Undefined, twindow |-> 0, tw |-> 0, scan |-> FALSE]

\* no request apart from play
NoFn == [op |-> "none", arg |-> <<>>, ran |-> FALSE, out |-> <<>>]

\* the service after construction: nothing played, the stores empty
Start ==
  /\ pc = [p \in Calls |-> "idle"]
  /\ inp = [p \in Calls |-> 1]
  /\ perr = [p \in Calls |-> NoError]
  /\ result = [p \in Calls |-> NoResult]
  /\ dupq = [p \in Calls |-> NoDupq]
  /\ eff = [p \in Calls |-> {}]
  /\ locks = [k \in LockKeys |-> Free]
  /\ ddup = <<>>
  /\ idb = {}
  /\ odb = [id \in OIds |-> NoDoc]
  /\ edb = [id \in EIds |-> NoEDoc]
  /\ pending = <<>>
  /\ batch = [b \in Calls |-> NoBatch]
  /\ owrites = [x \in Inputs |-> [i \in 1..NSlots(x) |-> 0]]
  /\ nplays = 0
  /\ next = 0
  /\ nfail = 0
  /\ okd = {}
  /\ dedupe \in BOOLEAN
  /\ rp = NoReplay

Init == Start /\ fn = NoFn

\* ---------------------------------------------------------------- play
\* one more failure of the environment
Fail(n) == nfail + n <= MaxFail /\ nfail' = nfail + n

\* play exits by an exception: finally { unlock() }, nothing is returned
Throw_nounlock(p, e) ==
  /\ pc' = [pc EXCEPT ![p] = "done"]
  /\ result' = [result EXCEPT ![p] = [kind |-> "thrown", error |-> e]]
  /\ perr' = perr
  /\ locks' = locks

Throw(p, e) ==
  /\ pc' = [pc EXCEPT ![p] = "done"]
  /\ result' = [result EXCEPT ![p] = [kind |-> "thrown", error |-> e]]
  /\ perr' = perr
  /\ locks' = [locks EXCEPT ![Oid(inp[p])] = Free]

\* play returns {doc, error}: finally { unlock() }
Return(p, e) ==
  /\ pc' = [pc EXCEPT ![p] = "done"]
  /\ result' = [result EXCEPT ![p] = [kind |-> "returned", error |-> e]]
  /\ perr' = perr
  /\ locks' = [locks EXCEPT ![Oid(inp[p])] = Free]

\* dedupe: has(id)
FilterHas(id) == \E n \in 1..Len(ddup) : ddup[n] = id

\* dedupe: add(id); the filter keeps the FilterCap most recent ids
FilterAdd(id) ==
  LET others == SelectSeq(ddup, LAMBDA e : e # id)
      kept == IF Len(others) >= FilterCap
                THEN SubSeq(others, Len(others) - FilterCap + 2, Len(others))
                ELSE others
  IN Append(kept, id)

\* an invocation slot that can take a new play: it is not running one, and
\* the replay driver is not waiting for its result
Avail(p) == pc[p] \in {"idle", "done"} /\ ~(rp.pc = "wait" /\ rp.call = p)

\* the slots are interchangeable: a play takes the first slot never used, or
\* else the first one whose play has ended
FirstAvail(p) ==
  /\ Avail(p)
  /\ \A q \in Calls \ {p} :
       Avail(q) => IF pc[q] = "idle" THEN pc[p] = "idle" /\ p < q
                   ELSE pc[p] = "idle" \/ p < q

\* play is invoked on an input doc and asks for the lock on its leaf output id
Invoke(p, x) ==
  /\ FirstAvail(p)
  /\ pc' = [pc EXCEPT ![p] = "lock"]
  /\ inp' = [inp EXCEPT ![p] = x]
  /\ perr' = [perr EXCEPT ![p] = NoError]
  /\ result' = [result EXCEPT ![p] = NoResult]
  /\ dupq' = [dupq EXCEPT ![p] = NoDupq]
  /\ eff' = [eff EXCEPT ![p] = {}]
  /\ UNCHANGED <<locks, storeVars, pending, batch, next, nfail, dedupe, fn>>

\* routes.post: play is invoked on the input doc of a request
PlayStart(p, x) ==
  /\ nplays < MaxPlays
  /\ nplays' = nplays + 1
  /\ Invoke(p, x)
  /\ UNCHANGED rp

\* const unlock = yield lock(oid); then, without suspending,
\* if (ddup) detectDup: if (ddup.has(oid)) throw dupError(oid), else odb.get
\* is issued; without a filter idb.put is issued
PlayLock_nolock(p) ==
  /\ pc[p] = "lock"
  /\ IF dedupe /\ FilterHas(Oid(inp[p]))
       THEN /\ dupq' = [dupq EXCEPT ![p].has = "yes"]
            /\ Throw(p, dupError)
       ELSE /\ dupq' = [dupq EXCEPT ![p].has = IF dedupe THEN "no" ELSE "na"]
            /\ pc' = [pc EXCEPT ![p] = IF dedupe THEN "dupget" ELSE "login"]
            /\ UNCHANGED <<result, perr, locks>>
  /\ UNCHANGED <<inp, eff, storeVars, pending, batch, ctrs>>

\* const unlock = yield lock(oid); then, without suspending,
\* if (ddup) detectDup: if (ddup.has(oid)) throw dupError(oid), else odb.get
\* is issued; without a filter idb.put is issued
PlayLock(p) ==
  /\ pc[p] = "lock"
  /\ locks[Oid(inp[p])] = Free
  /\ IF dedupe /\ FilterHas(Oid(inp[p]))
       THEN /\ dupq' = [dupq EXCEPT ![p].has = "yes"]
            /\ Throw(p, dupError)
       ELSE /\ dupq' = [dupq EXCEPT ![p].has = IF dedupe THEN "no" ELSE "na"]
            /\ locks' = [locks EXCEPT ![Oid(inp[p])] = <<"play", p>>]
            /\ pc' = [pc EXCEPT ![p] = IF dedupe THEN "dupget" ELSE "login"]
            /\ UNCHANGED <<result, perr>>
  /\ UNCHANGED <<inp, eff, storeVars, pending, batch, ctrs>>

\* detectDup: const odoc = yield odb.get(oid);
\*            if (odoc !== undefined) throw dupError(oid)
DetectDupGet_ignore(p) ==
  /\ pc[p] = "dupget"
  /\ \/ /\ Fail(1)
        /\ dupq' = [dupq EXCEPT ![p].get = "failed"]
        /\ Throw(p, StoreTimeout)
     \/ /\ dupq' = [dupq EXCEPT ![p].get =
                      IF odb[Oid(inp[p])] # NoDoc THEN "found" ELSE "absent"]
        /\ pc' = [pc EXCEPT ![p] = "login"]
        /\ UNCHANGED <<result, perr, locks, nfail>>
  /\ UNCHANGED <<inp, eff, storeVars, pending, batch, nplays, next, dedupe, fn, rp>>

DetectDupGet(p) ==
  /\ pc[p] = "dupget"
  /\ \/ /\ Fail(1)
        /\ dupq' = [dupq EXCEPT ![p].get = "failed"]
        /\ Throw(p, StoreTimeout)
     \/ /\ odb[Oid(inp[p])] # NoDoc
        /\ dupq' = [dupq EXCEPT ![p].get = "found"]
        /\ Throw(p, dupError)
        /\ UNCHANGED nfail
     \/ /\ odb[Oid(inp[p])] = NoDoc
        /\ dupq' = [dupq EXCEPT ![p].get = "absent"]
        /\ pc' = [pc EXCEPT ![p] = "login"]
        /\ UNCHANGED <<result, perr, locks, nfail>>
  /\ UNCHANGED <<inp, eff, storeVars, pending, batch, nplays, next, dedupe, fn, rp>>

\* logInput, then the call greduce({...}) which hands the call to the batcher
LogInput_unlock(p) ==
  /\ pc[p] = "login"
  /\ dupq' = [dupq EXCEPT ![p].iput =
                IF InputId(inp[p]) \in idb THEN "409" ELSE "ok"]
  /\ idb' = idb \cup {InputId(inp[p])}
  /\ eff' = [eff EXCEPT ![p] = @ \cup {"input"}]
  /\ pending' = Append(pending, p)
  /\ pc' = [pc EXCEPT ![p] = "batched"]
  /\ locks' = [locks EXCEPT ![Oid(inp[p])] = Free]
  /\ UNCHANGED <<inp, result, perr, ddup, odb, edb, owrites, okd, batch, ctrs>>

LogInput_skip(p) ==
  /\ pc[p] = "login"
  /\ dupq' = [dupq EXCEPT ![p].iput = "ok"]
  /\ eff' = [eff EXCEPT ![p] = @ \cup {"input"}]
  /\ pending' = Append(pending, p)
  /\ pc' = [pc EXCEPT ![p] = "batched"]
  /\ UNCHANGED <<inp, result, perr, locks, storeVars, batch, ctrs>>

LogInput_rethrow(p) ==
  /\ pc[p] = "login"
  /\ IF InputId(inp[p]) \in idb
       THEN /\ dupq' = [dupq EXCEPT ![p].iput = "409"]
            /\ Throw(p, StoreConflict)
            /\ UNCHANGED <<idb, eff, pending>>
       ELSE /\ dupq' = [dupq EXCEPT ![p].iput = "ok"]
            /\ idb' = idb \cup {InputId(inp[p])}
            /\ eff' = [eff EXCEPT ![p] = @ \cup {"input"}]
            /\ pending' = Append(pending, p)
            /\ pc' = [pc EXCEPT ![p] = "batched"]
            /\ UNCHANGED <<result, perr, locks>>
  /\ UNCHANGED <<inp, ddup, odb, edb, owrites, okd, batch, ctrs>>

LogInput(p) ==
  /\ pc[p] = "login"
  /\ \/ \* idb.put fails with something else than a 409: rethrown
        /\ Fail(1)
        /\ dupq' = [dupq EXCEPT ![p].iput = "failed"]
        /\ Throw(p, StoreTimeout)
        /\ UNCHANGED <<idb, eff, pending>>
     \/ \* the put is accepted, or answers 409 for an existing doc (swallowed)
        /\ dupq' = [dupq EXCEPT ![p].iput =
                      IF InputId(inp[p]) \in idb THEN "409" ELSE "ok"]
        /\ idb' = idb \cup {InputId(inp[p])}
        /\ eff' = [eff EXCEPT ![p] = @ \cup {"input"}]
        /\ pending' = Append(pending, p)
        /\ pc' = [pc EXCEPT ![p] = "batched"]
        /\ UNCHANGED <<result, perr, locks, nfail>>
  /\ UNCHANGED <<inp, ddup, odb, edb, owrites, okd, batch, nplays,
                 next, dedupe, fn, rp>>

\* ---------------------------------------------------------------- batcher
\* batch.groupBy: the calls collected so far are split by group key and the
\* group function is started once per group
CallsOf(q, g) == SelectSeq(q, LAMBDA c : GroupKey(inp[c]) = g)

Flush ==
  /\ pending # <<>>
  /\ batch' = [b \in Calls |->
        IF \E i \in 1..Len(pending) :
             CallsOf(pending, GroupKey(inp[pending[i]]))[1] = b
          THEN [NoBatch EXCEPT !.pc = "lock",
                               !.calls = CallsOf(pending, GroupKey(inp[b]))]
          ELSE batch[b]]
  /\ pending' = <<>>
  /\ UNCHANGED <<pc, inp, perr, result, dupq, eff, locks, storeVars, ctrs>>

\* the input doc of call j of batch b
BIn(b, j) == inp[batch[b].calls[j]]
BLen(b) == Len(batch[b].calls)

\* const unlock = yield lock(calls[0][0].igroups[0])
GroupLock(b) ==
  /\ batch[b].pc = "lock"
  /\ locks[GroupLockKey(BIn(b, 1))] = Free
  /\ locks' = [locks EXCEPT ![GroupLockKey(BIn(b, 1))] = <<"batch", b>>]
  /\ batch' = [batch EXCEPT ![b].pc = "read"]
  /\ UNCHANGED <<pc, inp, perr, result, dupq, eff, storeVars, pending, ctrs>>

SetMax(S) == CHOOSE m \in S : \A u \in S : u <= m
SetMin(S) == CHOOSE m \in S : \A u \in S : m <= u

\* lastAccum: the latest doc of key okey within the month of otime
LastAccum(okey, otime) ==
  LET T == {u \in Times : /\ MonthOf(u) = MonthOf(otime)
                          /\ Kturi(okey, u) \in OIds
                          /\ odb[Kturi(okey, u)] # NoDoc}
  IN IF T = {} THEN NoAccum
     ELSE [id |-> Kturi(okey, SetMax(T)),
           rev |-> odb[Kturi(okey, SetMax(T))].rev,
           val |-> odb[Kturi(okey, SetMax(T))].val]

\* accums = yield tmap(zip(calls[0][0].okeys, calls[0][0].otimes), lastAccum)
ReadAccums(b) ==
  /\ batch[b].pc = "read"
  /\ \/ /\ Fail(1)
        /\ batch' = [batch EXCEPT ![b].pc = "end", ![b].err = StoreTimeout]
     \/ /\ batch' = [batch EXCEPT
             ![b].pc = "reduce",
             ![b].accums = [i \in 1..NSlots(BIn(b, 1)) |->
                 LastAccum(InputDocs[BIn(b, 1)].okeys[i],
                           InputDocs[BIn(b, 1)].otimes[i])]]
        /\ UNCHANGED nfail
  /\ UNCHANGED <<pc, inp, perr, result, dupq, eff, locks, storeVars, pending,
                 nplays, next, dedupe, fn, rp>>

\* ---------------------------------------------------------------- reduce
PrevVal(prev, i) == IF i <= Len(prev) THEN prev[i].val ELSE <<>>

\* yreducefn(last(log), udoc) followed by buildOutputs: one output per output
\* key of the input doc, accumulating the doc on the previous log entry; the
\* user reducer is represented by the history of the docs it folded
ReduceOne(prev, x) ==
  [i \in 1..NSlots(x) |->
     [id |-> OutId(x, i), val |-> Append(PrevVal(prev, i), x), src |-> x]]

RECURSIVE FoldLog(_, _)
\* the reduction with every input doc reduced on the accumulators read
FoldLog_accums(b, j) ==
  IF j = 0 THEN batch[b].accums ELSE ReduceOne(batch[b].accums, BIn(b, j))

\* treduce(idocs, ..., [accums]): entry j of the reduction log
FoldLog(b, j) ==
  IF j = 0 THEN batch[b].accums ELSE ReduceOne(FoldLog(b, j - 1), BIn(b, j))

\* the reducer is run on each input doc of the batch in turn; it returns
\* outputs, returns outputs carrying an error mark, or throws (and is then
\* not run on the docs that follow); a run over the batch that marks or
\* throws counts as one failure
Reduce(b) ==
  /\ batch[b].pc = "reduce"
  /\ \E ro \in [1..BLen(b) -> {"ok", "mark", "throw", "skip"}] :
       LET thr == {j \in 1..BLen(b) : ro[j] = "throw"}
           invoked == {j \in 1..BLen(b) : ro[j] # "skip"}
       IN /\ \A j \in 1..BLen(b) :
               ro[j] = "skip" <=> \E i \in thr : i < j
          /\ Fail(IF \E j \in 1..BLen(b) : ro[j] \in {"mark", "throw"}
                    THEN 1 ELSE 0)
          /\ eff' = [c \in Calls |->
                  IF \E j \in invoked : batch[b].calls[j] = c
                    THEN eff[c] \cup {"reduce"} ELSE eff[c]]
          /\ batch' = IF thr # {}
               THEN [batch EXCEPT ![b].pc = "end", ![b].err = ReduceThrown]
               ELSE [batch EXCEPT ![b].pc = "post",
                      ![b].outs = [j \in 1..BLen(b) |->
                          [mark |-> (ro[j] = "mark"), docs |-> FoldLog(b, j)]]]
  /\ UNCHANGED <<pc, inp, perr, result, dupq, locks, storeVars, pending,
                 nplays, next, dedupe, fn, rp>>

\* ---------------------------------------------------------------- sink
\* responses of the sink: status code and body.error
Responses ==
  {[statusCode |-> 201, berror |-> "none"],
   [statusCode |-> 201, berror |-> "other"],
   [statusCode |-> 409, berror |-> "none"],
   [statusCode |-> 409, berror |-> "slack"],
   [statusCode |-> 502, berror |-> "other"]}

\* postOutput: the condition under which the response is thrown as postError
PostFails_nofilter(r) ==
  \/ (r.statusCode # 201 /\ r.statusCode # 409)
  \/ (r.statusCode = 409 /\ r.berror = "slack")

PostFails(r) ==
  \/ (r.statusCode # 201 /\ r.statusCode # 409)
  \/ (r.statusCode = 409 /\ (r.berror = "slack" \/ ~dedupe))

\* postOutputs: the responses compiled into the reason of an 'esink' error
PostReason(r) == r.statusCode # 409 /\ r.berror # "none"

\* opt.sink.posts: the post uri of each output, "" for an output that is
\* not sent to the sink
SPosts == <<"/v1/sink", "">>

\* every output of the calls without an error mark (checkError) is posted,
\* whether it has a post uri or not
PostSlots_all(b) ==
  UNION {{<<j, i>> : i \in 1..NSlots(BIn(b, j))} :
           j \in {n \in 1..BLen(b) : ~batch[b].outs[n].mark}}

\* the outputs posted: those of the calls without an error mark (checkError)
\* that have a post uri (postOutput: if (!spost) return {statusCode: 201})
PostSlots(b) ==
  UNION {{<<j, i>> : i \in {n \in 1..NSlots(BIn(b, j)) : SPosts[n] # ""}} :
           j \in {n \in 1..BLen(b) : ~batch[b].outs[n].mark}}

\* checkError / postOutputs: the result of call j
CallPres(b, j, resp) ==
  IF batch[b].outs[j].mark THEN MarkError
  ELSE IF \E s \in DOMAIN resp : s[1] = j /\ PostReason(resp[s])
       THEN SinkError
       ELSE NoError

\* the responses received, by call and output
PostsOf(resp) ==
  {[call |-> s[1], slot |-> s[2], statusCode |-> resp[s].statusCode,
    berror |-> resp[s].berror] : s \in DOMAIN resp}

\* presults = yield tmap(pgdocs, ...): every output of every call without an
\* error mark is posted; a failed post is thrown out of the batch
Post(b) ==
  /\ batch[b].pc = "post"
  /\ \E resp \in [PostSlots(b) -> Responses] :
       /\ Fail(Cardinality({s \in PostSlots(b) :
                              PostFails(resp[s]) \/ PostReason(resp[s])}))
       /\ eff' = [c \in Calls |->
               IF \E s \in PostSlots(b) : batch[b].calls[s[1]] = c
                 THEN eff[c] \cup {"sink"} ELSE eff[c]]
       /\ \/ \E s \in PostSlots(b) :
               /\ PostFails(resp[s])
               /\ batch' = [batch EXCEPT ![b].pc = "end",
                              ![b].posts = PostsOf(resp),
                              ![b].err = PostError(resp[s].statusCode)]
          \/ /\ \A s \in PostSlots(b) : ~PostFails(resp[s])
             /\ batch' = [batch EXCEPT ![b].pc = "log",
                            ![b].posts = PostsOf(resp),
                            ![b].pres = [j \in 1..BLen(b) |->
                                           CallPres(b, j, resp)]]
  /\ UNCHANGED <<pc, inp, perr, result, dupq, locks, storeVars, pending,
                 nplays, next, dedupe, fn, rp>>

\* ---------------------------------------------------------------- log
\* the revision given to an output doc of slot i: that of the accumulator
\* read for slot i when the ids are the same, none otherwise
PutRev_anyid(accums, i, id) ==
  IF i <= Len(accums) /\ accums[i] # NoAccum THEN accums[i].rev ELSE 0

PutRev_fresh(accums, i, id) == odb[id].rev

PutRev(accums, i, id) ==
  IF i <= Len(accums) /\ accums[i] # NoAccum /\ accums[i].id = id
    THEN accums[i].rev ELSE 0

\* allpodocs: the output docs of all the calls, in call then slot order
AllPodocs(b) ==
  UNION {{[id |-> batch[b].outs[j].docs[i].id,
           rev |-> PutRev(batch[b].accums, i, batch[b].outs[j].docs[i].id),
           val |-> batch[b].outs[j].docs[i].val,
           src |-> batch[b].outs[j].docs[i].src,
           slot |-> i, call |-> j] : i \in 1..NSlots(BIn(b, j))} :
         j \in 1..BLen(b)}

Later(d, e) == d.call > e.call \/ (d.call = e.call /\ d.slot > e.slot)

\* logOutputs: uniq(odocs.reverse(), id) keeps the last doc of each id
UniqPodocs(b) ==
  {d \in AllPodocs(b) : ~\E e \in AllPodocs(b) : e.id = d.id /\ Later(e, d)}

\* the store accepts a put without revision for a new id and a put with the
\* current revision for an existing one; anything else is a 409
PutOk(d) ==
  IF d.rev = 0 THEN odb[d.id] = NoDoc ELSE odb[d.id].rev = d.rev

\* the accumulation slots (output key, month) the docs of ids belong to
SlotsOfIds(ids) ==
  {s \in OKeys \X {MonthOf(t) : t \in Times} :
     \E t \in Times : Kturi(s[1], t) \in ids /\ MonthOf(t) = s[2]}

\* what a write of ids by writer w means to the other batches that have read
\* their accumulators and not yet logged their outputs
Dirtied(bt, w, ids) ==
  [c \in Calls |->
     IF c # w /\ bt[c].pc \in {"reduce", "post", "log"}
       THEN [bt[c] EXCEPT !.dirty = @ \cup ids,
                          !.dirtySlots = @ \cup SlotsOfIds(ids)]
       ELSE bt[c]]

\* errors = filter(presults, (res) => res !== undefined); errors.length
HasErrors_skipfirst(b) ==
  \E j \in 2..BLen(b) : batch[b].pres[j] # NoError

HasErrors(b) == \E j \in 1..BLen(b) : batch[b].pres[j] # NoError

\* if (odb && !errors.length) yield logOutputs(allpodocs, odb): the puts are
\* issued together; each one is accepted, refused with a 409 or times out
LogOutputs(b) ==
  /\ batch[b].pc = "log"
  /\ IF HasErrors(b)
       THEN /\ batch' = [batch EXCEPT ![b].pc = "end"]
            /\ UNCHANGED <<odb, owrites, eff, nfail>>
       ELSE \E F \in SUBSET {d.id : d \in UniqPodocs(b)} :
              LET ok == {d \in UniqPodocs(b) : d.id \notin F /\ PutOk(d)}
                  bad == UniqPodocs(b) \ ok
              IN /\ Fail(Cardinality(F))
                 /\ odb' = [id \in OIds |->
                       IF \E d \in ok : d.id = id
                         THEN LET d == CHOOSE e \in ok : e.id = id
                              IN [rev |-> odb[id].rev + 1, val |-> d.val,
                                  src |-> d.src]
                         ELSE odb[id]]
                 /\ owrites' = [x \in Inputs |-> [i \in 1..NSlots(x) |->
                       IF \E d \in ok : d.src = x /\ d.slot = i
                         THEN owrites[x][i] + 1 ELSE owrites[x][i]]]
                 /\ eff' = [c \in Calls |->
                       IF \E d \in UniqPodocs(b) : batch[b].calls[d.call] = c
                         THEN eff[c] \cup {"oput"} ELSE eff[c]]
                 /\ \E e \in IF bad = {} THEN {NoError}
                             ELSE {IF d.id \in F THEN StoreTimeout
                                   ELSE StoreConflict : d \in bad} :
                      batch' = Dirtied(
                        [batch EXCEPT ![b].pc = "end", ![b].err = e,
                           ![b].puts = {[id |-> d.id, rev |-> d.rev,
                                         slot |-> d.slot, call |-> d.call,
                                         ok |-> (d \in ok)] :
                                        d \in UniqPodocs(b)}],
                        b, {d.id : d \in ok})
  /\ UNCHANGED <<pc, inp, perr, result, dupq, locks, ddup, idb, edb, okd,
                 pending, nplays, next, dedupe, fn, rp>>

\* finally { unlock() }; the batcher hands its result to each call of the
\* group: the exception when the group function threw, else its own result
Finish(b) ==
  /\ batch[b].pc = "end"
  /\ locks' = [locks EXCEPT ![GroupLockKey(BIn(b, 1))] = Free]
  /\ perr' = [c \in Calls |->
        IF \E j \in 1..BLen(b) : batch[b].calls[j] = c
          THEN IF batch[b].err # NoError THEN batch[b].err
               ELSE batch[b].pres[CHOOSE j \in 1..BLen(b) :
                                     batch[b].calls[j] = c]
          ELSE perr[c]]
  /\ pc' = [c \in Calls |->
        IF \E j \in 1..BLen(b) : batch[b].calls[j] = c
          THEN "reduced" ELSE pc[c]]
  /\ batch' = [batch EXCEPT ![b] = NoBatch]
  /\ UNCHANGED <<inp, result, dupq, eff, storeVars, pending, ctrs>>

\* ---------------------------------------------------------------- play, end
\* play with the leaf output id added to a filter whatever opt.input.dedupe
AfterReduce_onerror(p) ==
  /\ pc[p] = "reduced"
  /\ ddup' = IF dedupe THEN FilterAdd(Oid(inp[p])) ELSE ddup
  /\ eff' = [eff EXCEPT ![p] = IF dedupe THEN @ \cup {"ddup"} ELSE @]
  /\ IF perr[p] = NoError
       THEN /\ okd' = okd \cup {inp[p]}
            /\ Return(p, NoError)
       ELSE /\ pc' = [pc EXCEPT ![p] = "eget"]
            /\ UNCHANGED <<result, perr, locks, okd>>
  /\ UNCHANGED <<inp, dupq, idb, odb, edb, owrites, pending, batch, ctrs>>

AfterReduce_add(p) ==
  /\ pc[p] = "reduced"
  /\ IF perr[p] = NoError
       THEN /\ ddup' = FilterAdd(Oid(inp[p]))
            /\ eff' = [eff EXCEPT ![p] = @ \cup {"ddup"}]
            /\ okd' = okd \cup {inp[p]}
            /\ Return(p, NoError)
       ELSE /\ pc' = [pc EXCEPT ![p] = "eget"]
            /\ UNCHANGED <<ddup, eff, result, perr, locks, okd>>
  /\ UNCHANGED <<inp, dupq, idb, odb, edb, owrites, pending, batch, ctrs>>

\* play resumes with the result of greduce:
\* if (ddup && !error) filterDup(oid, ddup); if (edb && error) ...
AfterReduce(p) ==
  /\ pc[p] = "reduced"
  /\ IF perr[p] = NoError
       THEN /\ ddup' = IF dedupe THEN FilterAdd(Oid(inp[p])) ELSE ddup
            /\ eff' = [eff EXCEPT ![p] = IF dedupe THEN @ \cup {"ddup"} ELSE @]
            /\ okd' = okd \cup {inp[p]}
            /\ Return(p, NoError)
       ELSE /\ pc' = [pc EXCEPT ![p] = "eget"]
            /\ UNCHANGED <<ddup, eff, result, perr, locks, okd>>
  /\ UNCHANGED <<inp, dupq, idb, odb, edb, owrites, pending, batch, ctrs>>

\* const doc = yield edb.get(eid); if (!doc) ...
ErrGet(p) ==
  /\ pc[p] = "eget"
  /\ \/ /\ Fail(1)
        /\ dupq' = [dupq EXCEPT ![p].eget = "failed"]
        /\ Throw(p, StoreTimeout)
     \/ /\ edb[Eid(inp[p])] # NoEDoc
        /\ dupq' = [dupq EXCEPT ![p].eget = "found"]
        /\ Return(p, perr[p])
        /\ UNCHANGED nfail
     \/ /\ edb[Eid(inp[p])] = NoEDoc
        /\ dupq' = [dupq EXCEPT ![p].eget = "absent"]
        /\ pc' = [pc EXCEPT ![p] = "eput"]
        /\ UNCHANGED <<result, perr, locks, nfail>>
  /\ UNCHANGED <<inp, eff, storeVars, pending, batch, nplays, next, dedupe, fn, rp>>

\* yield logError(edoc, edb): the put of a doc without revision
ErrPut_overwrite(p) ==
  /\ pc[p] = "eput"
  /\ edb' = [edb EXCEPT ![Eid(inp[p])] = [error |-> perr[p], src |-> inp[p]]]
  /\ eff' = [eff EXCEPT ![p] = @ \cup {"edb"}]
  /\ Return(p, perr[p])
  /\ UNCHANGED <<inp, dupq, ddup, idb, odb, owrites, okd, pending, batch,
                 ctrs>>

ErrPut(p) ==
  /\ pc[p] = "eput"
  /\ \/ /\ Fail(1)
        /\ Throw(p, StoreTimeout)
        /\ UNCHANGED <<edb, eff>>
     \/ /\ edb[Eid(inp[p])] # NoEDoc
        /\ Throw(p, StoreConflict)
        /\ UNCHANGED <<edb, eff, nfail>>
     \/ /\ edb[Eid(inp[p])] = NoEDoc
        /\ edb' = [edb EXCEPT ![Eid(inp[p])] =
                     [error |-> perr[p], src |-> inp[p]]]
        /\ eff' = [eff EXCEPT ![p] = @ \cup {"edb"}]
        /\ Return(p, perr[p])
        /\ UNCHANGED nfail
  /\ UNCHANGED <<inp, dupq, ddup, idb, odb, owrites, okd, pending, batch,
                 nplays, next, dedupe, fn, rp>>

\* ---------------------------------------------------------------- others
\* a writer outside this process (another app instance) creates or updates
\* an output doc
ExternalWrite(id) ==
  /\ next < MaxExt
  /\ next' = next + 1
  /\ odb' = [odb EXCEPT ![id] = [rev |-> odb[id].rev + 1,
                                 val |-> Append(odb[id].val, 0), src |-> 0]]
  /\ batch' = Dirtied(batch, 0, {id})
  /\ UNCHANGED <<pc, inp, perr, result, dupq, eff, locks, ddup, idb, edb,
                 owrites, okd, pending, nplays, nfail, dedupe, fn, rp>>

Next ==
  \/ \E p \in Calls, x \in Submitted : PlayStart(p, x)
  \/ \E p \in Calls : PlayLock(p)
  \/ \E p \in Calls : DetectDupGet(p)
  \/ \E p \in Calls : LogInput(p)
  \/ Flush
  \/ \E b \in Calls : GroupLock(b)
  \/ \E b \in Calls : ReadAccums(b)
  \/ \E b \in Calls : Reduce(b)
  \/ \E b \in Calls : Post(b)
  \/ \E b \in Calls : LogOutputs(b)
  \/ \E b \in Calls : Finish(b)
  \/ \E p \in Calls : AfterReduce(p)
  \/ \E p \in Calls : ErrGet(p)
  \/ \E p \in Calls : ErrPut(p)
  \/ \E id \in OIds : ExternalWrite(id)

Spec == Init /\ [][Next]_vars

TypeOK ==
  /\ \A p \in Calls : pc[p] \in {"idle", "lock", "dupget", "login",
                                  "batched", "reduced", "eget", "eput", "done"}
  /\ Len(ddup) <= FilterCap
  /\ idb \subseteq IIds

\* fairness of the event loop: a play or a group batch that can take its next
\* step, and a batcher that holds calls, eventually run
PlayStep(p) ==
  \/ PlayLock(p) \/ DetectDupGet(p) \/ LogInput(p)
  \/ AfterReduce(p) \/ ErrGet(p) \/ ErrPut(p)

BatchStep(b) ==
  \/ GroupLock(b) \/ ReadAccums(b) \/ Reduce(b)
  \/ Post(b) \/ LogOutputs(b) \/ Finish(b)

Progress ==
  \/ Flush
  \/ \E p \in Calls : PlayStep(p)
  \/ \E b \in Calls : BatchStep(b)

\* the service alone, without writers outside the process
LocalNext ==
  \/ \E p \in Calls, x \in Submitted : PlayStart(p, x)
  \/ Progress

FairSpec == Init /\ [][LocalNext]_vars /\ WF_vars(Progress)

\* the service given input docs of one group with different output keys
MixNext ==
  \/ \E p \in Calls, x \in Mixed : PlayStart(p, x)
  \/ Progress

MixSpec == Init /\ [][MixNext]_vars

\* ---------------------------------------------------------------- replay
\* the input docs of the input store from time w on, in key order
Window(w) == {x \in Inputs : InputId(x) \in idb /\ InputDocs[x].itime >= w}

RECURSIVE InKeyOrder(_)
InKeyOrder(S) ==
  IF S = {} THEN <<>>
  ELSE LET m == CHOOSE x \in S :
                  \A y \in S : InputDocs[x].itime <= InputDocs[y].itime
       IN <<m>> \o InKeyOrder(S \ {m})

\* err.f of an error object: undefined (here FALSE or 0) without the field
Flag(e, f) == IF f \in DOMAIN e THEN e[f] ELSE FALSE
Num(e, f) == IF f \in DOMAIN e THEN e[f] ELSE 0

\* getStatusCode with err.status looked at before the expression and timeout
\* marks
GetStatusCode_statusfirst(e) ==
  IF e = NoError THEN 201
  ELSE IF Num(e, "status") # 0 THEN e.status
  ELSE IF Flag(e, "expressionError") THEN 422
  ELSE IF Flag(e, "timeoutError") THEN 500
  ELSE IF Num(e, "statusCode") # 0 THEN e.statusCode
  ELSE 500

\* getStatusCode: 201 without error; 422 for an expressionError, 500 for a
\* timeoutError, else err.status, else err.statusCode, else 500
GetStatusCode(e) ==
  IF e = NoError THEN 201
  ELSE IF Flag(e, "expressionError") THEN 422
  ELSE IF Flag(e, "timeoutError") THEN 500
  ELSE IF Num(e, "status") # 0 THEN e.status
  ELSE IF Num(e, "statusCode") # 0 THEN e.statusCode
  ELSE 500

\* moment.now() when replay runs: later than every input doc
Now == 4

\* parseInt of an environment variable: <<FALSE, 0>> stands for NaN
ParseInt(e) ==
  IF e = Str("0") THEN <<TRUE, 0>>
  ELSE IF e = Str("2") THEN <<TRUE, 2>>
  ELSE <<FALSE, 0>>

\* the window with the caller's value before that of the environment
ReplayWindow_argfirst(env, twindow) ==
  IF twindow # 0 THEN twindow ELSE ParseInt(env)[2]

\* const tw = parseInt(process.env.REPLAY) || twindow
ReplayWindow(env, twindow) ==
  IF ParseInt(env)[1] /\ ParseInt(env)[2] # 0 THEN ParseInt(env)[2]
  ELSE twindow

\* the values of REPLAY and of the window given by the caller
ReplayArgs ==
  {<<Str("0"), 0>>, <<Str("2"), 1>>}

\* the process is started again and replay is run: plays and batches under
\* way, the lock table and the duplicate filter of the former process are
\* gone, the stores are as they were left; without a window the callback is
\* called at once; else the input docs of the window are read and handed to
\* replayDoc one after the other, starting from the stats
\* {replayed: 0, failed: 0}
ReplayStart(env, twindow) ==
  /\ rp.pc \in {"off", "done"}
  /\ rp.runs < MaxReplays
  /\ LET tw == ReplayWindow(env, twindow)
         W == Window(Now - tw)
     IN rp' = IF tw = 0
          THEN [NoReplay EXCEPT !.pc = "done", !.runs = rp.runs + 1,
                                !.env = env, !.twindow = twindow]
          ELSE [pc |-> IF W = {} THEN "done" ELSE "oget",
                todo |-> InKeyOrder(W), call |-> 0,
                replayed |-> 0, failed |-> 0, err |-> FALSE,
                size |-> Cardinality(W),
                clean |-> \A x \in W :
                            odb[Oid(x)] # NoDoc \/ edb[Eid(x)] # NoEDoc,
                runs |-> rp.runs + 1,
                env |-> env, twindow |-> twindow, tw |-> tw, scan |-> TRUE]
  /\ pc' = [p \in Calls |-> "idle"]
  /\ inp' = [p \in Calls |-> 1]
  /\ perr' = [p \in Calls |-> NoError]
  /\ result' = [p \in Calls |-> NoResult]
  /\ dupq' = [p \in Calls |-> NoDupq]
  /\ eff' = [p \in Calls |-> {}]
  /\ locks' = [k \in LockKeys |-> Free]
  /\ ddup' = <<>>
  /\ pending' = <<>>
  /\ batch' = [b \in Calls |-> NoBatch]
  /\ UNCHANGED <<idb, odb, edb, owrites, okd, nplays, next, nfail, dedupe, fn>>

\* replayDoc returns the stats: the next doc is taken, or the run ends
Advance(r) ==
  [r EXCEPT !.todo = Tail(@),
            !.pc = IF Len(r.todo) = 1 THEN "done" ELSE "oget",
            !.call = 0]

\* replayDoc: const odoc = yield odb.get(id); if (odoc) return stats
ReplayOGet_noskip ==
  /\ rp.pc = "oget"
  /\ rp' = [rp EXCEPT !.pc = "eget"]
  /\ UNCHANGED <<pc, inp, perr, result, dupq, eff, locks, storeVars, pending,
                 batch, nplays, next, nfail, dedupe, fn>>

ReplayOGet ==
  /\ rp.pc = "oget"
  /\ \/ /\ Fail(1)
        /\ rp' = [rp EXCEPT !.pc = "done", !.err = TRUE]
     \/ /\ odb[Oid(Head(rp.todo))] # NoDoc
        /\ rp' = Advance(rp)
        /\ UNCHANGED nfail
     \/ /\ odb[Oid(Head(rp.todo))] = NoDoc
        /\ rp' = [rp EXCEPT !.pc = "eget"]
        /\ UNCHANGED nfail
  /\ UNCHANGED <<pc, inp, perr, result, dupq, eff, locks, storeVars, pending,
                 batch, nplays, next, dedupe, fn>>

\* replayDoc: const edoc = yield edb.get(errid); if (edoc) return stats
ReplayEGet_noskip ==
  /\ rp.pc = "eget"
  /\ rp' = [rp EXCEPT !.pc = "play"]
  /\ UNCHANGED <<pc, inp, perr, result, dupq, eff, locks, storeVars, pending,
                 batch, nplays, next, nfail, dedupe, fn>>

ReplayEGet ==
  /\ rp.pc = "eget"
  /\ \/ /\ Fail(1)
        /\ rp' = [rp EXCEPT !.pc = "done", !.err = TRUE]
     \/ /\ edb[Eid(Head(rp.todo))] # NoEDoc
        /\ rp' = Advance(rp)
        /\ UNCHANGED nfail
     \/ /\ edb[Eid(Head(rp.todo))] = NoEDoc
        /\ rp' = [rp EXCEPT !.pc = "play"]
        /\ UNCHANGED nfail
  /\ UNCHANGED <<pc, inp, perr, result, dupq, eff, locks, storeVars, pending,
                 batch, nplays, next, dedupe, fn>>

\* replayDoc: const played = yield routes.play(omit(idoc, 'id', 'processed'))
ReplayPlay(p) ==
  /\ rp.pc = "play"
  /\ Invoke(p, Head(rp.todo))
  /\ rp' = [rp EXCEPT !.pc = "wait", !.call = p]
  /\ UNCHANGED nplays

\* replayDoc without the try around routes.play: a play that throws ends
\* the run with its exception
ReplayDone_nocatch ==
  /\ rp.pc = "wait"
  /\ pc[rp.call] = "done"
  /\ LET ok == /\ result[rp.call].kind = "returned"
               /\ GetStatusCode(result[rp.call].error) = 201
     IN rp' = IF result[rp.call].kind = "thrown"
                THEN [rp EXCEPT !.pc = "done", !.err = TRUE]
                ELSE Advance([rp EXCEPT !.replayed = IF ok THEN @ + 1 ELSE @,
                                        !.failed = IF ok THEN @ ELSE @ + 1])
  /\ UNCHANGED <<pc, inp, perr, result, dupq, eff, locks, storeVars, pending,
                 batch, nplays, next, nfail, dedupe, fn>>

\* replayDoc: stats.replayed++ when the play answers 201, stats.failed++
\* when it answers anything else or throws
ReplayDone ==
  /\ rp.pc = "wait"
  /\ pc[rp.call] = "done"
  /\ LET ok == /\ result[rp.call].kind = "returned"
               /\ GetStatusCode(result[rp.call].error) = 201
     IN rp' = Advance([rp EXCEPT !.replayed = IF ok THEN @ + 1 ELSE @,
                                 !.failed = IF ok THEN @ ELSE @ + 1])
  /\ UNCHANGED <<pc, inp, perr, result, dupq, eff, locks, storeVars, pending,
                 batch, nplays, next, nfail, dedupe, fn>>

\* the service with the replay driver running next to the posted inputs
ReplayNext ==
  \/ LocalNext
  \/ \E a \in ReplayArgs : ReplayStart(a[1], a[2])
  \/ ReplayOGet
  \/ ReplayEGet
  \/ \E p \in Calls : ReplayPlay(p)
  \/ ReplayDone

ReplaySpec == Init /\ [][ReplayNext]_vars

\* ------------------------------------------------- routes and configuration
\* dbclient.k / dbclient.t: the key and the time component of a doc id
IdKeys == {InputDocs[x].ikey : x \in Inputs} \cup {InputDocs[x].ekey : x \in Inputs} \cup OKeys

IdParts(id) ==
  CHOOSE kt \in IdKeys \X Times :
    id \in {Kturi(kt[1], kt[2]), Tkuri(kt[1], kt[2])}

K(id) == IdParts(id)[1]
T(id) == Pad16(IdParts(id)[2])

\* the route templates opt.input.get may hold; "" when it is not configured
InputGet == "/v1/inputs"
\* loc: the location of a doc on a route, undefined without route or id;
\* without a request (replay) the base is http://localhost:9080
Loc(base, path, id) ==
  IF path = "" \/ id = "" THEN "undefined"
  ELSE base \o path \o "/k/" \o K(id) \o "/t/" \o T(id)

\* the errors a play may return: an exception of the reducer or of a store,
\* with or without the marks of the expression evaluator, status, statusCode
PlayedErrors ==
  {NoError} \cup
  [status : {0, 409}, statusCode : {0, 404}, expressionError : BOOLEAN,
   timeoutError : BOOLEAN, error : {"ereduce"}]

\* buildPlayResponse
BuildPlayResponse(base, path, played) ==
  [statusCode |-> GetStatusCode(played.error),
   Location |-> Loc(base, path, played.doc),
   body |-> played.error]

\* routes.post(opt.input.post): the response built from the result of play
RoutePost ==
  /\ fn.op = "post"
  /\ ~fn.ran
  /\ fn' = [fn EXCEPT !.ran = TRUE,
                      !.out = BuildPlayResponse("http://host", InputGet, fn.arg)]
  /\ UNCHANGED <<pc, inp, perr, result, dupq, eff, locks, storeVars, pending,
                 batch, nplays, next, nfail, dedupe, rp>>

\* errorTimeLimit, one month: 2629746000 ms, held as <<seconds, milliseconds>>
\* as are the tstart and tend parameters of a request
ErrorTimeLimit == <<2629746, 0>>
Stamps == {0, 1, 2629746, 2629747} \X {0, 1, 999}

\* a - b and a > b on <<seconds, milliseconds>>
Minus(a, b) ==
  IF a[2] >= b[2] THEN <<a[1] - b[1], a[2] - b[2]>>
  ELSE <<a[1] - b[1] - 1, a[2] + 1000 - b[2]>>

Greater(a, b) == a[1] > b[1] \/ (a[1] = b[1] /\ a[2] > b[2])

\* the error thrown for a window that is too long
ErrLimit ==
  [status |-> 409, error |-> "errlimit", noretry |-> TRUE, nobreaker |-> TRUE]

\* the window test with the limit itself rejected
OverLimit_atlimit(start, end) == ~Greater(ErrorTimeLimit, Minus(end, start))

\* if (end - start > errorTimeLimit)
OverLimit(start, end) == Greater(Minus(end, start), ErrorTimeLimit)

\* routes.get(opt.error.get): a window over the limit is refused before the
\* error store is asked, else edb.allDocs is asked for the docs of the window
RouteGetErrors ==
  /\ fn.op = "errors"
  /\ ~fn.ran
  /\ fn' = [fn EXCEPT
        !.ran = TRUE,
        !.out = IF OverLimit(fn.arg.tstart, fn.arg.tend)
                  THEN [thrown |-> ErrLimit, allDocs |-> 0]
                  ELSE [thrown |-> NoError, allDocs |-> 1]]
  /\ UNCHANGED <<pc, inp, perr, result, dupq, eff, locks, storeVars, pending,
                 batch, nplays, next, nfail, dedupe, rp>>

\* partition.bucket: the bucket of a key, an integer fixed by the key
KeySeq == <<"a", "b", "e", "i1", "i2", "i3", "i4">>
Bucket(k) == CHOOSE i \in 1..Len(KeySeq) : KeySeq[i] = k

\* partition.nopartition: no partition at all
NoPartition == <<>>

\* sinkpartition with a partitioner for one sink app as well
SinkPartition_one(n, env, k, t) ==
  LET sp == IF n # 0 THEN n ELSE IF env # 0 THEN env ELSE 1
  IN IF sp >= 1 THEN <<Bucket(k) % sp, MonthOf(t)>> ELSE NoPartition

\* sinkpartition(n)(k, t, 'write'): n, else SINK_APPS, else 1 sink apps; with
\* more than one the partition forward(sp) gives for the bucket of k and the
\* period of t, else no partition; 0 stands for NaN, undefined and unset
SinkPartition(n, env, k, t) ==
  LET sp == IF n # 0 THEN n ELSE IF env # 0 THEN env ELSE 1
  IN IF sp > 1 THEN <<Bucket(k) % sp, MonthOf(t)>> ELSE NoPartition

\* sink hosts, as url.parse reads them: with a port, and without (port 0)
SinkHosts ==
  {[protocol |-> "http:", hostname |-> <<"localhost">>, port |-> 9080,
    path |-> "/"],
   [protocol |-> "https:", hostname |-> <<"sink", "cf", "org">>, port |-> 0,
    path |-> "/v1"]}

\* sink: the uri of the sink app of the partition of id
Sink(id, shost, spartition, env) ==
  LET p == SinkPartition(spartition, env, K(id), IdParts(id)[2])
  IN IF p = NoPartition THEN shost
     ELSE IF shost.port # 0
       THEN [protocol |-> shost.protocol, hostname |-> shost.hostname,
             port |-> shost.port + p[1], path |-> ""]
       ELSE [protocol |-> shost.protocol,
             hostname |-> <<Head(shost.hostname) \o "-" \o ToString(p[1])>>
                            \o Tail(shost.hostname),
             port |-> 0, path |-> ""]

\* postOutput: const phost = yield sink(sid, shost, spartition)
SinkCall ==
  /\ fn.op = "sink"
  /\ ~fn.ran
  /\ fn' = [fn EXCEPT
        !.ran = TRUE,
        !.out = Sink(fn.arg.id, fn.arg.shost, fn.arg.apps, fn.arg.env)]
  /\ UNCHANGED <<pc, inp, perr, result, dupq, eff, locks, storeVars, pending,
                 batch, nplays, next, nfail, dedupe, rp>>

\* dbname: if (env) return env === 'false' || env === '' ? undefined : env;
\* return def
DbName(env, def) ==
  IF Truthy(env)
    THEN IF env.val = "false" \/ env.val = "" THEN Undefined ELSE env
    ELSE def

\* db / errordb: no handle without a name
Db(name) == Truthy(name)

\* reducer: a store is configured from its environment variable and the name
\* given in the options
StoreConfig ==
  /\ fn.op = "db"
  /\ ~fn.ran
  /\ fn' = [fn EXCEPT
        !.ran = TRUE,
        !.out = [name |-> DbName(fn.arg.env, fn.arg.def),
                 handle |-> Db(DbName(fn.arg.env, fn.arg.def))]]
  /\ UNCHANGED <<pc, inp, perr, result, dupq, eff, locks, storeVars, pending,
                 batch, nplays, next, nfail, dedupe, rp>>

\* odocs.concat([]).reverse()
Reverse(s) == [i \in 1..Len(s) |-> s[Len(s) + 1 - i]]

\* the docs of list s at the positions I, in the order of the list
SubList(s, I) ==
  LET nth == [k \in 1..Cardinality(I) |->
                CHOOSE i \in I : Cardinality({j \in I : j < i}) = k - 1]
  IN [k \in 1..Cardinality(I) |-> s[nth[k]]]

Uniq_last(s) ==
  SubList(s, {i \in 1..Len(s) :
                ~\E j \in (i + 1)..Len(s) : s[j].id = s[i].id})

\* uniq(list, (doc) => doc.id): the first doc of each id, in list order
Uniq(s) ==
  SubList(s, {i \in 1..Len(s) : ~\E j \in 1..(i - 1) : s[j].id = s[i].id})

\* logOutputs: the docs handed to logOutput, in the order tmap starts them
LoggedDocs(odocs) == Uniq(Reverse(odocs))

\* the lists of output docs of a batch: the doc of position n is the one
\* produced by the n-th reduction of the batch
DocLists ==
  UNION {{[n \in 1..len |-> [id |-> ids[n], call |-> n]] :
            ids \in [1..len -> OIds]} : len \in 0..MaxDocs}

\* groupReduce: yield logOutputs(allpodocs, odb)
LogOutputsCall ==
  /\ fn.op = "log"
  /\ ~fn.ran
  /\ fn' = [fn EXCEPT !.ran = TRUE, !.out = LoggedDocs(fn.arg)]
  /\ UNCHANGED <<pc, inp, perr, result, dupq, eff, locks, storeVars, pending,
                 batch, nplays, next, nfail, dedupe, rp>>

\* the requests and calls handled apart from play, one per behaviour
FnInit ==
  /\ Start
  /\ \/ fn \in [op : {"post"}, arg : [doc : IIds, error : PlayedErrors],
                 ran : {FALSE}, out : {<<>>}]
     \/ fn \in [op : {"errors"}, arg : [tstart : Stamps, tend : Stamps],
                 ran : {FALSE}, out : {<<>>}]
     \/ fn \in [op : {"db"},
                 arg : [key : {"INPUT_DB", "OUTPUT_DB", "ERROR_DB"},
                        env : {Undefined, Str(""), Str("false"), Str("db1")},
                        def : {Undefined, Str("abacus-docs")}],
                 ran : {FALSE}, out : {<<>>}]
     \/ fn \in [op : {"sink"},
                 arg : [id : OIds, shost : SinkHosts, apps : 0..3,
                        env : {0, 2}],
                 ran : {FALSE}, out : {<<>>}]
     \/ fn \in [op : {"log"}, arg : DocLists, ran : {FALSE}, out : {<<>>}]

FnNext ==
  \/ RoutePost
  \/ RouteGetErrors
  \/ SinkCall
  \/ StoreConfig
  \/ LogOutputsCall

FnSpec == FnInit /\ [][FnNext]_vars

\* ------------------------------------------------------------ test helper
\* a property the options do not have
Unset == -1

\* _currentEventuallyConfig, after setEventuallyPollingInterval(1) and
\* setEventuallyTimeout(2), in ticks of the clock
CurrentEventuallyConfig == [pollingInterval |-> 1, timeout |-> 2]

\* defaults(options, config): the properties options lacks are taken from
\* config; options that are undefined have none
Defaults(options, config) ==
  [k \in DOMAIN config |->
     IF options[k] = Unset THEN config[k] ELSE options[k]]

\* the options eventually is called with, and moment.now() at the call
EvArgs == [pollingInterval : {Unset, 0, 2}, timeout : {Unset, 0, 3},
           start : {0, 3}]

\* setTimeout(cb, duration): the callback runs after duration at the
\* earliest, and a duration below 1 counts as 1
Delay(duration) == IF duration < 1 THEN 1 ELSE duration

Expired_strict(now, start, timeout) == now - start > timeout

\* the loop is left when moment.now() - start < timeout is false
Expired(now, start, timeout) == ~(now - start < timeout)

\* eventually has read the clock and the configuration and is about to
\* invoke func; hist lists the outcomes of the invocations of func,
\* lastError is the number of the invocation that threw last, errAt the
\* clock when it threw, wokeAt the clock at the end of the last sleep
EvStart(a) ==
  [pc |-> "call",
   config |-> Defaults([pollingInterval |-> a.pollingInterval,
                        timeout |-> a.timeout], CurrentEventuallyConfig),
   start |-> a.start, now |-> a.start, hist |-> <<>>, result |-> 0,
   lastError |-> 0, errAt |-> 0, sleeps |-> 0, wokeAt |-> 0,
   thrown |-> [timeout |-> 0, lastError |-> 0]]

\* try { return await func() } catch (e) { lastError = e }: func takes some
\* time and returns or throws; its result and its exception are represented
\* by the number of the invocation
EvCall ==
  /\ fn.op = "eventually"
  /\ fn.out.pc = "call"
  /\ \E ok \in BOOLEAN, d \in {0, 1} :
       LET n == Len(fn.out.hist) + 1
       IN fn' = IF ok
            THEN [fn EXCEPT !.ran = TRUE,
                    !.out = [@ EXCEPT !.pc = "returned",
                                      !.now = @ + d,
                                      !.hist = Append(@, "ok"),
                                      !.result = n]]
            ELSE [fn EXCEPT
                    !.out = [@ EXCEPT !.pc = "sleep",
                                      !.now = @ + d,
                                      !.hist = Append(@, "throw"),
                                      !.lastError = n,
                                      !.errAt = fn.out.now + d]]
  /\ UNCHANGED <<pc, inp, perr, result, dupq, eff, locks, storeVars, pending,
                 batch, nplays, next, nfail, dedupe, rp>>

\* await _sleep(pollingInterval) ends, the loop condition is evaluated:
\* func is invoked again, or the timeout error is thrown with the text of
\* lastError in its message
EvWake ==
  /\ fn.op = "eventually"
  /\ fn.out.pc = "sleep"
  /\ \E late \in {0, 1} :
       LET t == fn.out.now + Delay(fn.out.config.pollingInterval) + late
       IN fn' = IF Expired(t, fn.out.start, fn.out.config.timeout)
            THEN [fn EXCEPT !.ran = TRUE,
                    !.out = [@ EXCEPT
                       !.pc = "timeout", !.now = t, !.wokeAt = t,
                       !.sleeps = @ + 1,
                       !.thrown = [timeout |-> fn.out.config.timeout,
                                   lastError |-> fn.out.lastError]]]
            ELSE [fn EXCEPT
                    !.out = [@ EXCEPT !.pc = "call", !.now = t, !.wokeAt = t,
                                      !.sleeps = @ + 1]]
  /\ UNCHANGED <<pc, inp, perr, result, dupq, eff, locks, storeVars, pending,
                 batch, nplays, next, nfail, dedupe, rp>>

\* a test calls eventually(func, options)
EvInit ==
  /\ Start
  /\ \E a \in EvArgs :
       fn = [op |-> "eventually", arg |-> a, ran |-> FALSE,
             out |-> EvStart(a)]

EvNext == EvCall \/ EvWake

\* func returns or throws whenever it is invoked, and timers fire
EvSpec == EvInit /\ [][EvNext]_vars /\ WF_vars(EvNext)

\* ---------------------------------------------------------------- claims
\* a group batch is between the grant of its group lock and its release
InGroup(b) == batch[b].pc \in {"read", "reduce", "post", "log", "end"}

ThrownDup409 ==
  [kind |-> "thrown",
   error |-> [status |-> 409, error |-> "conflict", noretry |-> TRUE,
              nobreaker |-> TRUE]]

\* C1: for a given group identifier igroups[0] at most one group batch is
\* between its accumulator read and the end of its output logging; a second
\* batch of that group reads its accumulators only after the first released
\* the group lock
C1_GroupMutex ==
  \A b1 \in Calls : \A b2 \in Calls :
    (b1 # b2 /\ InGroup(b1) /\ InGroup(b2))
      => InputDocs[BIn(b1, 1)].groups[1] # InputDocs[BIn(b2, 1)].groups[1]

C1_Witness ==
  \E b1 \in Calls : \E b2 \in Calls :
    /\ b1 # b2
    /\ batch[b1].pc = "log"
    /\ batch[b2].pc = "lock"
    /\ InputDocs[BIn(b1, 1)].groups[1] = InputDocs[BIn(b2, 1)].groups[1]
    /\ InputDocs[BIn(b1, 1)].groups # InputDocs[BIn(b2, 1)].groups

\* C2: with the duplicate filter configured, submitting the same input again
\* has one durable effect: the output of each slot of an input is accepted by
\* the output store at most once, and a play of an input that an earlier play
\* returned success for does not run the reducer
C2_OneDurableEffect ==
  dedupe =>
    /\ \A x \in Inputs : \A i \in 1..NSlots(x) : owrites[x][i] <= 1
    /\ \A p \in Calls :
         (pc[p] \notin {"idle", "done"} /\ inp[p] \in okd)
           => "reduce" \notin eff[p]

\* C3: after a play that went past the duplicate check and returned, an
\* output doc of its input was logged or an error doc exists at its error id
C3_OutputOrError ==
  \A p \in Calls :
    (pc[p] = "done" /\ result[p].kind = "returned")
      => \/ \E i \in 1..NSlots(inp[p]) : owrites[inp[p]][i] > 0
         \/ edb[Eid(inp[p])] # NoEDoc

\* C4: when a call of a group batch has an error result (reducer error mark
\* or sink error) or a sink post was thrown, no put to the output store is
\* issued for any call of that batch
C4_LogOnlyIfAllPosted ==
  \A b \in Calls :
    (/\ batch[b].pc = "end"
     /\ \/ \E j \in 1..Len(batch[b].pres) : batch[b].pres[j] # NoError
        \/ batch[b].err.error = "epost")
      => /\ batch[b].puts = {}
         /\ \A j \in 1..BLen(b) : "oput" \notin eff[batch[b].calls[j]]

C4_Witness ==
  \E b \in Calls :
    /\ batch[b].pc = "end"
    /\ \E j \in 1..Len(batch[b].pres) : batch[b].pres[j] # NoError
    /\ \E j \in 1..Len(batch[b].pres) : batch[b].pres[j] = NoError

\* C5: every put of an output doc of slot i carries either no revision (the
\* accumulator read for slot i is absent or has another id) or exactly the
\* revision lastAccum read for slot i at the start of the reduce
C5_PutRevision ==
  \A b \in Calls : \A d \in batch[b].puts :
    IF /\ d.slot <= Len(batch[b].accums)
       /\ batch[b].accums[d.slot].rev # 0
       /\ batch[b].accums[d.slot].id = d.id
      THEN d.rev = batch[b].accums[d.slot].rev
      ELSE d.rev = 0

C5_Witness ==
  \E b \in Calls : \E d \in batch[b].puts :
    /\ d.rev # 0
    /\ d.ok
    /\ \E e \in batch[b].puts : e.rev = 0 /\ e.ok

C7_NoPartialOutputs ==
  \A b \in Calls :
    (batch[b].pc = "end" /\ batch[b].err # NoError)
      => \A d \in batch[b].puts : ~d.ok

C9_DuplicateNoEffect ==
  \A p \in Calls :
    (dupq[p].has = "yes" \/ dupq[p].get = "found")
      => /\ pc[p] = "done"
         /\ result[p] = ThrownDup409
         /\ eff[p] = {}
         /\ locks[Oid(inp[p])] # <<"play", p>>

C9_Witness ==
  \E p \in Calls :
    /\ dupq[p].has = "yes"
    /\ pc[p] = "done"
    /\ odb[Oid(inp[p])] # NoDoc
    /\ edb[Eid(inp[p])] = NoEDoc

\* C10: whenever a lock is held (on a leaf output id by a play, on igroups[0]
\* by a group batch) or awaited, a state follows in which every lock has been
\* released and no play or batch is left waiting for one, whichever way the
\* protected regions were left
C10_LocksReleased ==
  (\/ \E k \in LockKeys : locks[k] # Free
   \/ \E p \in Calls : pc[p] = "lock"
   \/ \E b \in Calls : batch[b].pc = "lock")
  ~> (/\ \A k \in LockKeys : locks[k] = Free
      /\ \A p \in Calls : pc[p] # "lock"
      /\ \A b \in Calls : batch[b].pc # "lock")

C10_Witness ==
  \E p \in Calls : \E q \in Calls :
    /\ pc[p] = "done"
    /\ result[p] = [kind |-> "thrown", error |-> StoreTimeout]
    /\ dupq[p].get = "absent"
    /\ inp[q] = inp[p]
    /\ locks[Oid(inp[q])] = <<"play", q>>

\* C11: when the user reducer throws in a group batch, the batch posts
\* nothing and logs no output doc, and every play of the batch keeps the
\* exception as its error, posts and logs nothing, adds nothing to the
\* filter, and ends by returning that error with an error doc present at its
\* error id
C11_ReducerThrowReturned ==
  /\ \A b \in Calls :
       (batch[b].pc = "end" /\ batch[b].err = ReduceThrown)
         => batch[b].posts = {} /\ batch[b].puts = {}
  /\ \A p \in Calls :
       perr[p] = ReduceThrown
         => /\ eff[p] \cap {"sink", "oput", "ddup"} = {}
            /\ pc[p] = "done"
                 => /\ result[p] = [kind |-> "returned", error |-> ReduceThrown]
                    /\ edb[Eid(inp[p])] # NoEDoc

\* C12: when a sink post fails (status other than 201 and 409, 409 with
\* body.error 'slack', 409 without a duplicate filter), the play of that
\* input logs no output doc, adds nothing to the filter, and ends by
\* returning the error carrying the status of the sink with an error doc
\* present at its error id
C12_SinkFailureReturned ==
  \A p \in Calls :
    perr[p].error = "epost"
      => /\ eff[p] \cap {"oput", "ddup"} = {}
         /\ perr[p].status # 201
         /\ pc[p] = "done"
              => /\ result[p] = [kind |-> "returned", error |-> perr[p]]
                 /\ edb[Eid(inp[p])] # NoEDoc

\* the response r is one postOutput returns: 201, or 409 with a filter
\* configured and a body that does not say 'slack'
PostAccepted(r) ==
  \/ r.statusCode = 201
  \/ (r.statusCode = 409 /\ dedupe /\ r.berror # "slack")

\* C13 as stated: the responses of a call that are not accepted are collected
\* into the result {error: 'esink'} of that call
C13_FailuresCollected ==
  \A b \in Calls :
    batch[b].posts # {}
      => \A r \in batch[b].posts :
           ~PostAccepted(r)
             => /\ Len(batch[b].pres) >= r.call
                /\ batch[b].pres[r.call] = SinkError

\* C13 amended: a post is accepted exactly when the status is 201, or 409
\* with a filter configured and no body.error 'slack'; any other response is
\* thrown as {id, status, ...body} and ends the whole batch with that error,
\* no call getting a post result; when all responses are accepted, a call
\* gets {error: 'esink'} exactly when one of its responses has a status other
\* than 409 and a body carrying an error
C13_SinkClassification ==
  \A b \in Calls :
    batch[b].posts # {}
      => LET bad == {r \in batch[b].posts : ~PostAccepted(r)}
         IN /\ bad # {} <=> batch[b].err.error = "epost"
            /\ bad # {} => /\ batch[b].pc = "end"
                           /\ batch[b].pres = <<>>
                           /\ \E r \in bad :
                                batch[b].err.status = r.statusCode
            /\ bad = {} =>
                 \A j \in 1..BLen(b) :
                   ~batch[b].outs[j].mark =>
                     (batch[b].pres[j] = SinkError
                        <=> \E r \in batch[b].posts :
                              /\ r.call = j
                              /\ r.statusCode = 201
                              /\ r.berror # "none")

C13_Witness ==
  \E b \in Calls : \E r \in batch[b].posts :
    /\ ~dedupe
    /\ r.statusCode = 409
    /\ r.berror = "none"
    /\ batch[b].err = PostError(409)

\* C14: a play in which the input log failed with something else than a 409,
\* or to which the group reduce handed an error (reducer exception, reducer
\* error mark, sink failure, output store failure), ends by returning that
\* error in its result, with an error doc present at its error id
C14_ErrorsLoggedAndReturned ==
  \A p \in Calls :
    (pc[p] = "done" /\ (dupq[p].iput = "failed" \/ perr[p] # NoError))
      => /\ result[p].kind = "returned"
         /\ result[p].error # NoError
         /\ edb[Eid(inp[p])] # NoEDoc

C16_OneInputDoc ==
  /\ [](/\ \A x \in okd : InputId(x) \in idb
        /\ \A p \in Calls :
             "reduce" \in eff[p]
               => /\ dupq[p].iput \in {"ok", "409"}
                  /\ InputId(inp[p]) \in idb)
  /\ [][idb' # idb =>
          \E p \in Calls :
            /\ pc[p] = "login"
            /\ InputId(inp[p]) \notin idb
            /\ idb' = idb \cup {InputId(inp[p])}
            /\ dupq'[p].iput = "ok"]_vars
  /\ [][\A p \in Calls :
          (pc[p] = "login" /\ dupq'[p].iput = "409")
            => (idb' = idb /\ InputId(inp[p]) \in idb)]_vars

C16_Witness ==
  \E p \in Calls :
    /\ rp.pc = "wait"
    /\ rp.call = p
    /\ pc[p] = "done"
    /\ dupq[p].iput = "409"
    /\ result[p] = [kind |-> "returned", error |-> NoError]
    /\ dedupe

\* C17: a play whose input put was answered by a 409 goes on to the group
\* reduce as after an accepted put (it is thrown out of only later, by the
\* error store); a play whose input put failed otherwise has thrown that
\* failure, has run no reducer, posted nothing, written no doc, and does not
\* hold its lock
C17_InputConflictSwallowed ==
  \A p \in Calls :
    /\ dupq[p].iput = "409"
         => /\ "input" \in eff[p]
            /\ pc[p] \in {"batched", "reduced", "eget", "eput", "done"}
            /\ result[p].kind = "thrown" => dupq[p].eget # "na"
    /\ dupq[p].iput = "failed"
         => /\ pc[p] = "done"
            /\ result[p] = [kind |-> "thrown", error |-> StoreTimeout]
            /\ eff[p] = {}
            /\ locks[Oid(inp[p])] # <<"play", p>>

C17_Witness ==
  \E p \in Calls :
    /\ dupq[p].iput = "409"
    /\ pc[p] = "done"
    /\ "reduce" \in eff[p]
    /\ result[p] = [kind |-> "returned", error |-> NoError]

\* C18 as stated: the duplicate check and the input log of a play happen
\* while the group lock (on igroups[0]) is held
C18_GroupLockHeldEarly ==
  \A p \in Calls :
    pc[p] \in {"dupget", "login"} => locks[GroupLockKey(inp[p])] # Free

\* C18 amended: a play holds the lock on its leaf output id from the
\* duplicate check to the end of its error logging and no longer once it has
\* answered; the input is logged after the duplicate check; the group lock on
\* igroups[0] is held by the batch alone, from its accumulator read to its
\* end; within the batch the reducer runs after the input log, the posts
\* after the reducer, the output puts after the posts; the filter update and
\* the error logging of a play come after its batch has ended
C18_StepOrder ==
  /\ \A p \in Calls :
       /\ pc[p] \in {"dupget", "login", "batched", "reduced", "eget", "eput"}
            => locks[Oid(inp[p])] = <<"play", p>>
       /\ pc[p] = "done" => locks[Oid(inp[p])] # <<"play", p>>
       /\ "input" \in eff[p] => (dedupe => dupq[p].get = "absent")
       /\ "reduce" \in eff[p] => "input" \in eff[p]
       /\ "sink" \in eff[p] => "reduce" \in eff[p]
       /\ "oput" \in eff[p] => "sink" \in eff[p]
       /\ (pc[p] \in {"eget", "eput"} \/ eff[p] \cap {"ddup", "edb"} # {})
            => /\ \A b \in Calls : \A j \in 1..BLen(b) : batch[b].calls[j] # p
               /\ \A n \in 1..Len(pending) : pending[n] # p
  /\ \A b \in Calls :
       /\ batch[b].pc # "none"
            => (InGroup(b) <=> locks[GroupLockKey(BIn(b, 1))] = <<"batch", b>>)
       /\ \A j \in 1..BLen(b) :
            LET c == batch[b].calls[j]
            IN /\ pc[c] = "batched"
               /\ "reduce" \in eff[c] => batch[b].pc \in {"post", "log", "end"}
               /\ "sink" \in eff[c] => batch[b].pc \in {"log", "end"}
               /\ "oput" \in eff[c] => batch[b].pc = "end"

C18_Witness ==
  \E p \in Calls :
    /\ pc[p] = "eput"
    /\ "sink" \in eff[p]
    /\ locks[Oid(inp[p])] = <<"play", p>>
    /\ locks[GroupLockKey(inp[p])] = Free

\* C19: a replay run started when every input doc of its window has an
\* output doc at its leaf output id or an error doc at its error id never
\* invokes play, reports {replayed: 0, failed: 0}, and none of its steps
\* changes a store, the filter or a play
C19_ReplayNoOp ==
  /\ [](rp.clean => /\ rp.replayed = 0
                    /\ rp.failed = 0
                    /\ rp.pc \notin {"play", "wait"})
  /\ [][(rp.clean /\ rp' # rp /\ rp'.runs = rp.runs)
          => UNCHANGED <<pc, inp, result, eff, locks, ddup, idb, odb, edb,
                         owrites, pending, batch>>]_vars

C19_Witness ==
  /\ rp.clean
  /\ rp.pc = "done"
  /\ ~rp.err
  /\ rp.size = 2
  /\ \E x \in Inputs : InputId(x) \in idb /\ odb[Oid(x)] = NoDoc
  /\ \E x \in Inputs : InputId(x) \in idb /\ odb[Oid(x)] # NoDoc

\* C20: replayDoc asks the output store first: with a doc at the leaf output
\* id the input is skipped without asking the error store; else the error
\* store is asked and a doc at the error id skips the input; else the input
\* is handed to play, and only then; the stats count one replayed for a play
\* that returns without error and one failed for any other outcome
C20_ReplayResubmits ==
  [][/\ (rp.pc = "oget" /\ rp' # rp /\ ~rp'.err)
          => IF odb[Oid(Head(rp.todo))] # NoDoc
               THEN /\ rp'.todo = Tail(rp.todo)
                    /\ rp'.pc \in {"oget", "done"}
                    /\ rp'.replayed = rp.replayed /\ rp'.failed = rp.failed
                    /\ UNCHANGED <<pc, inp>>
               ELSE rp'.pc = "eget" /\ rp'.todo = rp.todo
     /\ (rp.pc = "eget" /\ rp' # rp /\ ~rp'.err)
          => IF edb[Eid(Head(rp.todo))] # NoEDoc
               THEN /\ rp'.todo = Tail(rp.todo)
                    /\ rp'.pc \in {"oget", "done"}
                    /\ rp'.replayed = rp.replayed /\ rp'.failed = rp.failed
                    /\ UNCHANGED <<pc, inp>>
               ELSE rp'.pc = "play" /\ rp'.todo = rp.todo
     /\ (rp.pc = "play" /\ rp' # rp)
          => /\ rp'.pc = "wait"
             /\ pc'[rp'.call] = "lock"
             /\ inp'[rp'.call] = Head(rp.todo)
     /\ (rp'.pc = "wait" /\ rp.pc # "wait") => rp.pc = "play"
     /\ (rp'.pc = "play" /\ rp.pc # "play") => rp.pc = "eget"
     /\ (rp'.pc = "eget" /\ rp.pc # "eget") => rp.pc = "oget"
     /\ (rp.pc = "wait" /\ rp' # rp)
          => IF result[rp.call] = [kind |-> "returned", error |-> NoError]
               THEN rp'.replayed = rp.replayed + 1 /\ rp'.failed = rp.failed
               ELSE rp'.replayed = rp.replayed /\ rp'.failed = rp.failed + 1
    ]_vars

C20_Witness ==
  /\ rp.pc = "done"
  /\ ~rp.err
  /\ rp.size = 2
  /\ rp.replayed = 1
  /\ rp.failed = 0
  /\ dedupe

\* C21: in one replay run the docs still to scan are distinct and the stats
\* never count more than the docs scanned so far; the stats change only when
\* a resubmitted play has ended: replayed grows by one when the play answers
\* 201, failed grows by one when it answers an error or throws; after either
\* the run goes on with the next doc, the failed one is not submitted again
C21_ReplayAccounting ==
  /\ [](/\ \A i, j \in 1..Len(rp.todo) : rp.todo[i] = rp.todo[j] => i = j
        /\ rp.replayed + rp.failed + Len(rp.todo) <= rp.size)
  /\ [][/\ (rp.pc = "wait" /\ rp' # rp)
             => LET r == result[rp.call]
                    ok == r.kind = "returned" /\ GetStatusCode(r.error) = 201
                IN /\ r.kind \in {"returned", "thrown"}
                   /\ rp'.replayed = rp.replayed + (IF ok THEN 1 ELSE 0)
                   /\ rp'.failed = rp.failed + (IF ok THEN 0 ELSE 1)
                   /\ ~rp'.err
                   /\ rp'.todo = Tail(rp.todo)
                   /\ rp'.pc = IF Tail(rp.todo) = <<>> THEN "done" ELSE "oget"
        /\ (rp.pc # "wait" /\ rp'.runs = rp.runs)
             => rp'.replayed = rp.replayed /\ rp'.failed = rp.failed
       ]_vars

\* a resubmission is under way after one that threw was counted as failed
C21_Witness ==
  /\ rp.pc = "wait"
  /\ rp.failed = 1
  /\ rp.replayed = 0
  /\ \E p \in Calls : p # rp.call /\ result[p].kind = "thrown"

\* C22: the response to a posted input has status 201 when the play returned
\* no error; with an error it has 422 when the error carries expressionError,
\* else 500 when it carries timeoutError, else the error's status when set,
\* else its statusCode when set, else 500; the error is the body; the
\* Location header is the input route of the stamped input id in every case
C22_PlayResponse ==
  (fn.op = "post" /\ fn.ran) =>
    LET e == fn.arg.error
        r == fn.out
    IN /\ (e = NoError) => r.statusCode = 201
       /\ (e # NoError) =>
            /\ e.expressionError => r.statusCode = 422
            /\ (~e.expressionError /\ e.timeoutError) => r.statusCode = 500
            /\ (~e.expressionError /\ ~e.timeoutError) =>
                 r.statusCode = IF e.status # 0 THEN e.status
                                ELSE IF e.statusCode # 0 THEN e.statusCode
                                ELSE 500
            /\ r.body = e
       /\ \E x \in Inputs :
            /\ fn.arg.doc = InputId(x)
            /\ r.Location = "http://host/v1/inputs/k/" \o InputDocs[x].ikey
                              \o "/t/" \o Pad16(InputDocs[x].itime)

\* an error with an expression mark and a status is answered with 422
C22_Witness ==
  /\ fn.op = "post"
  /\ fn.ran
  /\ fn.arg.error # NoError
  /\ fn.arg.error.expressionError
  /\ fn.arg.error.status = 409
  /\ fn.out.statusCode = 422

\* C23: a request for the error docs with tend - tstart of one month
\* (2629746000 ms) or less asks the error store; with one month and 1 ms or
\* more it is refused with {status: 409, error: 'errlimit', noretry: true}
\* and the error store is not asked
C23_ErrorWindow ==
  (fn.op = "errors" /\ fn.ran) =>
    LET a == fn.arg.tstart
        b == fn.arg.tend
        \* tstart plus one month
        m == <<a[1] + 2629746, a[2]>>
        late == b[1] > m[1] \/ (b[1] = m[1] /\ b[2] >= m[2] + 1)
    IN IF late
         THEN /\ fn.out.thrown.status = 409
              /\ fn.out.thrown.error = "errlimit"
              /\ fn.out.thrown.noretry
              /\ fn.out.allDocs = 0
         ELSE /\ fn.out.thrown = NoError
              /\ fn.out.allDocs = 1

\* a window of exactly one month was accepted
C23_Witness ==
  /\ fn.op = "errors"
  /\ fn.ran
  /\ fn.arg.tstart = <<1, 999>>
  /\ fn.arg.tend = <<2629747, 999>>
  /\ fn.out.allDocs = 1

\* C24: with opt.input.dedupe false or 0 no filter exists: a play asks
\* neither a filter nor the output store for a duplicate and goes from the
\* lock straight to the input log, no id is ever added to a filter, no play
\* ends with the duplicate error, and a batch that got a 409 from the sink
\* ends with a post error and logs no output
C24_NoDedupe ==
  /\ [](~dedupe =>
          /\ ddup = <<>>
          /\ \A p \in Calls :
               /\ dupq[p].has = "na"
               /\ dupq[p].get = "na"
               /\ "ddup" \notin eff[p]
               /\ pc[p] # "dupget"
               /\ result[p].error # dupError
          /\ \A b \in Calls :
               (\E r \in batch[b].posts : r.statusCode = 409)
                 => /\ batch[b].pc = "end"
                    /\ batch[b].err.error = "epost"
                    /\ batch[b].puts = {})
  /\ [][\A p \in Calls :
          (~dedupe /\ pc[p] = "lock" /\ pc'[p] # "lock" /\ rp'.runs = rp.runs)
            => pc'[p] = "login" /\ locks'[Oid(inp[p])] = <<"play", p>>]_vars

\* without a filter an input submitted twice was reduced twice into its
\* output doc
C24_Witness ==
  /\ ~dedupe
  /\ \E x \in Inputs :
       LET v == odb[Oid(x)].val
       IN \E i, j \in 1..Len(v) : i # j /\ v[i] = x /\ v[j] = x

\* C25: with P sink apps (opt.sink.apps, else SINK_APPS, else 1) the sink of
\* an id is the configured host when P <= 1; with P > 1 and p the partition
\* of the key of the id among P, a host with a port becomes the same hostname
\* with port + p, a host without port has "-p" appended to the leftmost
\* label of its name; ids of the same key get the same target
C25_SinkRouting ==
  (fn.op = "sink" /\ fn.ran) =>
    LET a == fn.arg
        P == IF a.apps > 0 THEN a.apps ELSE IF a.env > 0 THEN a.env ELSE 1
        key == CHOOSE k \in OKeys : \E t \in Times : a.id = Kturi(k, t)
        p == Bucket(key) % P
    IN /\ P <= 1 => fn.out = a.shost
       /\ (P > 1 /\ a.shost.port > 0) =>
            /\ fn.out.hostname = a.shost.hostname
            /\ fn.out.port = a.shost.port + p
            /\ fn.out.protocol = a.shost.protocol
       /\ (P > 1 /\ a.shost.port = 0) =>
            /\ fn.out.port = 0
            /\ fn.out.protocol = a.shost.protocol
            /\ Len(fn.out.hostname) = Len(a.shost.hostname)
            /\ fn.out.hostname[1] = a.shost.hostname[1] \o "-" \o ToString(p)
            /\ \A i \in 2..Len(a.shost.hostname) :
                 fn.out.hostname[i] = a.shost.hostname[i]
       /\ \A id \in OIds :
            K(id) = key => Sink(id, a.shost, a.apps, a.env) = fn.out

\* three sink apps: the id of a key of partition 1 goes to the next port
C25_Witness ==
  /\ fn.op = "sink"
  /\ fn.ran
  /\ fn.arg.apps = 3
  /\ fn.arg.shost.port = 9080
  /\ fn.out.port = 9081

\* C26: for INPUT_DB, OUTPUT_DB and ERROR_DB a value 'false' or '' gives no
\* store name and no handle, whatever name the options give; any other value
\* is the name of the store; without the variable the name of the options is
\* used
C26_StoreSelection ==
  (fn.op = "db" /\ fn.ran) =>
    LET env == fn.arg.env
    IN /\ (env.set /\ env.val \in {"false", ""}) =>
            fn.out.name = Undefined /\ ~fn.out.handle
       /\ (env.set /\ env.val \notin {"false", ""}) =>
            fn.out.name = env /\ fn.out.handle
       /\ ~env.set => fn.out.name = fn.arg.def

C28_SequentialFold ==
  \A b \in Calls :
    batch[b].outs # <<>> =>
      /\ Len(batch[b].outs) = BLen(b)
      /\ \A j \in 1..BLen(b) :
           LET x == BIn(b, j)
               prev == IF j = 1 THEN batch[b].accums
                       ELSE batch[b].outs[j - 1].docs
               out == batch[b].outs[j].docs
           IN /\ DOMAIN out = 1..NSlots(x)
              /\ \A i \in 1..NSlots(x) :
                   /\ out[i].id = OutId(x, i)
                   /\ out[i].src = x
                   /\ out[i].val =
                        (IF i <= Len(prev) THEN prev[i].val ELSE <<>>) \o <<x>>
              /\ "reduce" \in eff[batch[b].calls[j]]

\* a batch of two calls was reduced on an accumulator found in the store
C28_Witness ==
  \E b \in Calls :
    /\ BLen(b) = 2
    /\ batch[b].outs # <<>>
    /\ batch[b].accums[1] # NoAccum
    /\ batch[b].outs[2].docs[1].val =
         batch[b].accums[1].val \o <<BIn(b, 1), BIn(b, 2)>>

\* C29: a call whose reducer outputs carry an error mark has none of its
\* outputs posted and none written to the output store; the batch hands it
\* the marked error as its result, and its play ends by returning that error
C29_MarkedCallFails ==
  /\ \A b \in Calls : \A j \in 1..Len(batch[b].outs) :
       batch[b].outs[j].mark =>
         /\ \A r \in batch[b].posts : r.call # j
         /\ \A d \in batch[b].puts : d.call # j
         /\ "oput" \notin eff[batch[b].calls[j]]
         /\ batch[b].pc = "end" =>
              /\ batch[b].err = NoError
              /\ batch[b].pres[j] = MarkError
  /\ \A p \in Calls :
       (perr[p] = MarkError /\ pc[p] = "done")
         => result[p] = [kind |-> "returned", error |-> MarkError]

\* the response r was taken as a success and carries no error for 'esink'
PostClean(r) == PostAccepted(r) /\ ~(r.statusCode # 409 /\ r.berror # "none")

\* C30 as stated: the puts of a batch are issued after all its posts were
\* answered with success, and every output put to the store was accepted by
\* the sink
C30_LoggedWasAccepted ==
  \A b \in Calls : \A d \in batch[b].puts :
    /\ \A r \in batch[b].posts : PostClean(r)
    /\ \E r \in batch[b].posts :
         r.call = d.call /\ r.slot = d.slot /\ PostClean(r)

\* C30 amended: the puts of a batch are issued in the step after its posts,
\* when every post was answered with success; an output with a post uri is
\* put only when the sink accepted it (201, or 409 with a filter and without
\* 'slack'), an output without post uri is put without having been sent to
\* the sink; a put the store accepts raises the revision of the doc by one
C30_LoggedAfterPosts ==
  /\ [](\A b \in Calls : \A d \in batch[b].puts :
          /\ \A r \in batch[b].posts : PostClean(r)
          /\ IF SPosts[d.slot] # ""
               THEN \E r \in batch[b].posts :
                      r.call = d.call /\ r.slot = d.slot /\ PostClean(r)
               ELSE \A r \in batch[b].posts :
                      ~(r.call = d.call /\ r.slot = d.slot))
  /\ [][/\ \A b \in Calls :
            (batch[b].puts = {} /\ batch'[b].puts # {})
              => /\ batch[b].pc = "log"
                 /\ batch'[b].posts = batch[b].posts
                 /\ \A j \in 1..BLen(b) : batch[b].pres[j] = NoError
        /\ \A id \in OIds :
            odb'[id] # odb[id] => odb'[id].rev = odb[id].rev + 1
        /\ \A b \in Calls : \A d \in batch'[b].puts :
            (batch[b].puts = {} /\ d.ok)
              => /\ odb'[d.id].rev = odb[d.id].rev + 1
                 /\ d.rev \in {0, odb[d.id].rev}
       ]_vars

\* a batch logged an output the sink accepted as a duplicate and an output
\* that has no post uri
C30_Witness ==
  \E b \in Calls : \E d, e \in batch[b].puts :
    /\ d.ok /\ e.ok
    /\ SPosts[d.slot] # ""
    /\ SPosts[e.slot] = ""
    /\ \E r \in batch[b].posts :
         r.call = d.call /\ r.slot = d.slot /\ r.statusCode = 409


\* C31: logOutputs issues at most one put per distinct id, the doc put for an
\* id is the one of the latest call of the list with that id, every id of the
\* list is put, and the puts are started in reverse order of the list
C31_LastPerId ==
  (fn.op = "log" /\ fn.ran) =>
    /\ \A i, j \in 1..Len(fn.out) :
         i # j => fn.out[i].id # fn.out[j].id
    /\ \A n \in 1..Len(fn.arg) :
         \E i \in 1..Len(fn.out) : fn.out[i].id = fn.arg[n].id
    /\ \A i \in 1..Len(fn.out) :
         /\ fn.out[i].call \in 1..Len(fn.arg)
         /\ fn.arg[fn.out[i].call] = fn.out[i]
         /\ ~\E n \in 1..Len(fn.arg) :
              fn.arg[n].id = fn.out[i].id /\ n > fn.out[i].call
    /\ \A i, j \in 1..Len(fn.out) :
         i < j => fn.out[i].call > fn.out[j].call

\* a list of three docs whose first and last share an id was logged with two
\* puts
C31_Witness ==
  /\ fn.op = "log" /\ fn.ran
  /\ Len(fn.arg) = 3
  /\ fn.arg[1].id = fn.arg[3].id
  /\ fn.arg[2].id # fn.arg[1].id
  /\ Len(fn.out) = 2


\* C32: the duplicate filter changes only by add(oid) of a play that holds
\* the lock on its leaf output id oid and whose reduce returned without
\* error, in the step in which that play returns; a play that has added an
\* id ended without error; no two plays are between their lock grant and
\* their unlock for the same id
C32_FilterUnderLock ==
  /\ [](/\ \A p \in Calls :
             "ddup" \in eff[p]
               => /\ pc[p] = "done"
                  /\ perr[p] = NoError
                  /\ result[p] = [kind |-> "returned", error |-> NoError]
        /\ \A p, q \in Calls :
             (/\ p # q
              /\ pc[p] \in {"dupget", "login", "batched", "reduced",
                            "eget", "eput"}
              /\ pc[q] \in {"dupget", "login", "batched", "reduced",
                            "eget", "eput"})
               => Oid(inp[p]) # Oid(inp[q]))
  /\ [][ddup' # ddup
          => \E p \in Calls :
               /\ dedupe
               /\ pc[p] = "reduced" /\ pc'[p] = "done"
               /\ perr[p] = NoError
               /\ locks[Oid(inp[p])] = <<"play", p>>
               /\ \A b \in Calls : \A j \in 1..BLen(b) : batch[b].calls[j] # p
               /\ ddup' = FilterAdd(Oid(inp[p]))
               /\ "ddup" \in eff'[p]
               /\ \A q \in Calls \ {p} : eff'[q] = eff[q]]_vars

\* a play added its id to the filter while another play of the same input
\* waits for the lock on that id
C32_Witness ==
  \E p, q \in Calls :
    /\ "ddup" \in eff[p]
    /\ FilterHas(Oid(inp[p]))
    /\ pc[q] = "lock"
    /\ inp[q] = inp[p]


\* the plays and batches, named as the lock table names its holders
Waiters == ({"play"} \X Calls) \cup ({"batch"} \X Calls)

\* e cannot go on before f has: e asks for a lock f holds, or e is a play
\* whose input is in the batch f
WaitsFor(e, f) ==
  \/ /\ e[1] = "play"
     /\ pc[e[2]] = "lock"
     /\ locks[Oid(inp[e[2]])] = f
  \/ /\ e[1] = "batch"
     /\ batch[e[2]].pc = "lock"
     /\ locks[GroupLockKey(BIn(e[2], 1))] = f
  \/ /\ e[1] = "play" /\ f[1] = "batch"
     /\ pc[e[2]] = "batched"
     /\ \E j \in 1..BLen(f[2]) : batch[f[2]].calls[j] = e[2]

\* C33: with group keys igroups[0] that differ from every leaf output id (as
\* those of the input docs do), no state has a set of plays and batches that
\* each wait for a member of the set, and every play that was invoked
\* completes
C33_DeadlockFree ==
  /\ [](~\E S \in SUBSET Waiters :
            /\ S # {}
            /\ \A e \in S : \E f \in S : WaitsFor(e, f))
  /\ \A p \in Calls : (pc[p] \notin {"idle", "done"}) ~> (pc[p] = "done")

\* a play holds the lock on its leaf output id while its batch waits for the
\* group lock, held by the batch of another play
C33_Witness ==
  \E b, c \in Calls :
    /\ {GroupLockKey(x) : x \in Inputs} \cap {Oid(x) : x \in Inputs} = {}
    /\ b # c
    /\ batch[b].pc = "lock"
    /\ locks[GroupLockKey(BIn(b, 1))] = <<"batch", c>>
    /\ locks[Oid(BIn(b, 1))] = <<"play", batch[b].calls[1]>>
    /\ locks[Oid(BIn(c, 1))] = <<"play", batch[c].calls[1]>>


\* C34: every id in the duplicate filter has a doc at that id in the output
\* store
C34_FilterHasDoc ==
  \A n \in 1..Len(ddup) : odb[ddup[n]] # NoDoc


\* the accumulation slot of output i of input doc x: its key and month
SlotOf(x, i) == <<InputDocs[x].okeys[i], MonthOf(InputDocs[x].otimes[i])>>

\* the outputs of the calls before call j of batch b that belong to the
\* slot of output i of call j
PriorOuts(b, j, i) ==
  {kn \in (1..(j - 1)) \X (1..2) :
     /\ kn[2] <= NSlots(BIn(b, kn[1]))
     /\ SlotOf(BIn(b, kn[1]), kn[2]) = SlotOf(BIn(b, j), i)}

\* the accumulated value output i of call j has to continue: that of the
\* latest earlier call of the batch for the same slot, else that of the
\* latest stored output of the slot
OwnSeed(b, j, i) ==
  IF PriorOuts(b, j, i) = {}
    THEN LastAccum(InputDocs[BIn(b, j)].okeys[i],
                   InputDocs[BIn(b, j)].otimes[i]).val
    ELSE LET kn == CHOOSE u \in PriorOuts(b, j, i) :
                     \A w \in PriorOuts(b, j, i) : w[1] <= u[1]
         IN batch[b].outs[kn[1]].docs[kn[2]].val

\* the revision of the latest stored output of the slot when the output is
\* written at its id, none otherwise
OwnRev(b, j, i) ==
  LET a == LastAccum(InputDocs[BIn(b, j)].okeys[i],
                     InputDocs[BIn(b, j)].otimes[i])
  IN IF a # NoAccum /\ a.id = OutId(BIn(b, j), i) THEN a.rev ELSE 0

\* C35: in a batch that has reduced its calls, while no other writer has
\* touched the output store since its accumulators were read, every output
\* i of every call j continues the accumulated value of its own slot
\* (okeys[i], month of otimes[i]) and is logged with the revision of the
\* latest stored output of that slot
C35_OwnAccumulators ==
  \A b \in Calls :
    (batch[b].pc \in {"post", "log"} /\ batch[b].dirtySlots = {})
      => \A j \in 1..BLen(b) : \A i \in 1..NSlots(BIn(b, j)) :
           /\ batch[b].outs[j].docs[i].val
                = Append(OwnSeed(b, j, i), BIn(b, j))
           /\ PutRev(batch[b].accums, i, OutId(BIn(b, j), i))
                = OwnRev(b, j, i)


\* C36: the calls a group batch holds, and the calls waiting in the batcher,
\* have pairwise different leaf output ids, and each of them holds the lock
\* on its leaf output id
C36_DistinctLeafIds ==
  /\ \A b \in Calls : \A j, k \in 1..BLen(b) :
       /\ j # k => Oid(BIn(b, j)) # Oid(BIn(b, k))
       /\ locks[Oid(BIn(b, j))] = <<"play", batch[b].calls[j]>>
  /\ \A j, k \in 1..Len(pending) :
       /\ j # k => Oid(inp[pending[j]]) # Oid(inp[pending[k]])
       /\ locks[Oid(inp[pending[j]])] = <<"play", pending[j]>>

\* a play is in a group batch while a second play of the same input waits
\* for the lock on the leaf output id
C36_Witness ==
  \E b \in Calls : \E q \in Calls :
    /\ InGroup(b)
    /\ inp[q] = BIn(b, 1)
    /\ q # batch[b].calls[1]
    /\ pc[q] = "lock"


\* C37: with duplicate detection on, once a play of an input has ended with
\* the error of its batch (reducer, sink or output store failure), no play
\* of the input having succeeded and none being past the lock, and no other
\* writer having written to the output store, no doc exists at the leaf
\* output id of the input and the id is not in the filter
C37_FailedStaysRetriable ==
  \A p \in Calls :
    (/\ dedupe
     /\ pc[p] = "done"
     /\ perr[p] # NoError
     /\ inp[p] \notin okd
     /\ next = 0
     /\ \A q \in Calls \ {p} :
          Oid(inp[q]) = Oid(inp[p]) => pc[q] \in {"idle", "lock", "done"})
      => /\ odb[Oid(inp[p])] = NoDoc
         /\ ~FilterHas(Oid(inp[p]))


\* the number of invocations of func that threw
Throws(o) == Cardinality({n \in 1..Len(o.hist) : o.hist[n] = "throw"})

\* C38 as stated: eventually fails with the timeout error only after a failed
\* invocation at which the elapsed time was no longer below the timeout
C38_TimeoutAtFailure ==
  (fn.op = "eventually" /\ fn.out.pc = "timeout")
    => fn.out.errAt - fn.out.start >= fn.out.config.timeout

\* C38 amended: eventually invokes func at least once whatever the timeout;
\* it invokes func again only after a failure and returns the result of the
\* first invocation that does not throw; after each failed invocation it
\* waits one polling interval, and only then compares the elapsed time with
\* the timeout: below it func is invoked again, else the timeout error is
\* thrown, carrying the timeout and the last error; eventually ends
C38_Eventually ==
  /\ [](fn.op = "eventually" =>
          LET o == fn.out
          IN /\ o.config.timeout
                  = IF fn.arg.timeout = Unset
                      THEN CurrentEventuallyConfig.timeout
                      ELSE fn.arg.timeout
             /\ o.config.pollingInterval
                  = IF fn.arg.pollingInterval = Unset
                      THEN CurrentEventuallyConfig.pollingInterval
                      ELSE fn.arg.pollingInterval
             /\ o.pc # "call" => Len(o.hist) >= 1
             /\ \A n \in 1..(Len(o.hist) - 1) : o.hist[n] = "throw"
             /\ fn.ran <=> o.pc \in {"returned", "timeout"}
             /\ o.pc = "returned"
                  => /\ o.hist[Len(o.hist)] = "ok"
                     /\ o.result = Len(o.hist)
                     /\ o.sleeps = Len(o.hist) - 1
             /\ o.pc = "sleep" => o.sleeps = Throws(o) - 1
             /\ o.pc \in {"call", "timeout"} => o.sleeps = Throws(o)
             /\ (o.pc \in {"call", "timeout"} /\ o.sleeps > 0)
                  => o.wokeAt - o.errAt >= o.config.pollingInterval
             /\ o.pc = "timeout"
                  => /\ o.hist[Len(o.hist)] = "throw"
                     /\ o.wokeAt - o.start >= o.config.timeout
                     /\ o.thrown = [timeout |-> o.config.timeout,
                                    lastError |-> Len(o.hist)])
  /\ [][fn.op = "eventually" =>
          /\ (fn.out.pc = "sleep" /\ fn'.out.pc = "call")
               => fn'.out.now - fn.out.start < fn.out.config.timeout
          /\ fn.out.pc \in {"returned", "timeout"} => fn' = fn]_vars
  /\ <>(fn.out.pc \in {"returned", "timeout"})

\* the timeout error was thrown after two failed invocations, the last of
\* them at a time when the timeout had not been reached
C38_Witness ==
  /\ fn.op = "eventually"
  /\ fn.out.pc = "timeout"
  /\ Len(fn.out.hist) = 2
  /\ fn.out.errAt - fn.out.start < fn.out.config.timeout
  /\ fn.arg.timeout = Unset

====
